---- MODULE Spec2Model ----
(***************************************************************************)
(* Dual-subtitle merge engine of dual-subtitles-stremio-addon.             *)
(*                                                                         *)
(* mergeSubtitles exists in the repository in several variants; the model  *)
(* keeps them apart by the variable `variant`:                             *)
(*   "strict"     src/unnamed/part_008:630-765 (strict consumption)        *)
(*   "wordwrap"   src/unnamed/part_011:9-151   (word-wrap)                 *)
(*   "sidebyside" src/unnamed/part_010:9-162   (side-by-side columns)      *)
(*   "union0"     src/src/services/subtitleMerger.ts:8-78 (interval union) *)
(*   "union400"   src/unnamed/part_009:9-97 (interval union, merging)       *)
(*   "unionbridge" src/unnamed/part_010:172-283 (the same, bridging gaps)   *)
(*                                                                         *)
(* A text is a sequence of tokens (strings): a word, a markup tag, or one  *)
(* whitespace character.  An SRT content is a sequence of blocks.          *)
(***************************************************************************)
EXTENDS Integers, Sequences, FiniteSets, TLC

VARIABLES
    variant,    \* which mergeSubtitles the build links
    route,      \* "call": mergeSubtitles called directly; "handler"; "ondemand"
    srt1,       \* first content (top language / master), or Null
    srt2,       \* second content (bottom language / secondary), or Null
    offset,     \* options.offset
    pc,         \* "start" | "done"
    merged,     \* what mergeSubtitles returned (with its provenance)
    response,   \* what the serving layer answered
    codec,      \* a serializeSRT / parseSRT call on a string: its input and output
    tr,         \* a translateBatch call: its input, the providers, its progress
    cache,      \* subtitleCache: its entries, the clock, the last get
    fetch,      \* a call of the fetch layer: the provider's data, its progress
    pick,       \* a call of calculateSimilarity, getBestSubtitle or processText
    openSubtitlesClient, \* its keys, the key in use, the running call
    repeat,     \* a second mergeSubtitles call with the arguments of the first
    subtitleStorage,     \* its entries, the clock, the store calls made
    rotation    \* a rotating client and the executeWithRotation calls running on it

vars == <<variant, route, srt1, srt2, offset, pc, merged, response, codec, tr,
          cache, fetch, pick, openSubtitlesClient,
                repeat, subtitleStorage, rotation>>

----------------------------------------------------------------------------
(* Bounds of the model *)

\* longest content, in blocks
MaxCues == 2

\* longest string handed to parseSRT, in blank-line separated blocks
MaxBlocks == 3

\* longest list handed to translateBatch, in lines
MaxLines == 4

\* the clock of the cache stops here
MaxNow == 4

\* longest list handed to getBestSubtitle
MaxCandidates == 2

\* cue boundaries of the first content, in milliseconds: back-to-back cues
MasterTimes == {0, 100, 200}

\* cue boundaries of the second content: a cue shorter than the guard, a cue
\* that starts inside a master cue, a cue that spans two of them
SecondaryTimes == {0, 40, 200}

\* values of options.offset
Offsets == {-40, 0, 40}

----------------------------------------------------------------------------
(* Tokens and texts *)

\* the literal 50 of the overlap test
GUARD == 50

\* left column of the side-by-side layout
COL_WIDTH == 60

\* line width of the word-wrap layout
MAX_LINE_LENGTH == 45

Whitespace == {" ", "\n", "\r"}

\* what /<[^>]*>/ and /\{[^}]*\}/ match
Tags == {"<i>", "</i>", "<b>", "</b>", "{an8}"}

\* number of characters of a token
TokLen(tok) ==
    CASE tok = "Hello"   -> 5
      [] tok = "Bonjour" -> 7
      [] tok = "monde"   -> 5
      [] tok = "Hi"      -> 2
      [] tok = "<i>"     -> 3
      [] tok = "</i>"    -> 4
      [] tok = "<b>"     -> 3
      [] tok = "</b>"    -> 4
      [] tok = "{an8}"   -> 5
      [] tok = "   |   " -> 7
      [] tok = "dictionary" -> 10
      [] tok = "Supercalifragilisticexpialidocious" -> 34
      [] tok = "https://github.com/blackcat112/dual-subtitles-stremio-addon" -> 59
      [] OTHER           -> 1

RECURSIVE TextLen(_)
TextLen(text) ==
    IF text = <<>> THEN 0 ELSE TokLen(Head(text)) + TextLen(Tail(text))

Spaces(n) == [i \in 1..n |-> " "]

\* String.prototype.trim
RECURSIVE TrimStart(_)
TrimStart(text) ==
    IF text # <<>> /\ Head(text) \in Whitespace THEN TrimStart(Tail(text)) ELSE text

RECURSIVE TrimEnd(_)
TrimEnd(text) ==
    IF text # <<>> /\ text[Len(text)] \in Whitespace
    THEN TrimEnd(SubSeq(text, 1, Len(text) - 1))
    ELSE text

Trim(text) == TrimEnd(TrimStart(text))

\* .replace(/<[^>]*>/g, '').replace(/\{[^}]*\}/g, '')
StripTags(text) == SelectSeq(text, LAMBDA tok : tok \notin Tags)

\* .replace(/\r\n/g, '\n').replace(/\r/g, '\n')
RECURSIVE NormalizeNewlines(_)
NormalizeNewlines(text) ==
    IF text = <<>> THEN <<>>
    ELSE IF Head(text) = "\r"
         THEN IF Len(text) >= 2 /\ text[2] = "\n"
              THEN <<"\n">> \o NormalizeNewlines(Tail(Tail(text)))
              ELSE <<"\n">> \o NormalizeNewlines(Tail(text))
         ELSE <<Head(text)>> \o NormalizeNewlines(Tail(text))

\* .replace(/\n+/g, '\n')
RECURSIVE CollapseNewlines(_)
CollapseNewlines(text) ==
    IF Len(text) < 2 THEN text
    ELSE IF text[1] = "\n" /\ text[2] = "\n"
         THEN CollapseNewlines(Tail(text))
         ELSE <<Head(text)>> \o CollapseNewlines(Tail(text))

\* the four replaces and the trim every master-anchored variant starts with
cleanRawText(text) ==
    IF text = <<>> THEN <<>>
    ELSE Trim(NormalizeNewlines(StripTags(text)))

\* cleanText of the strict variant
cleanText(text, isSecondary) ==
    IF text = <<>> THEN <<>>
    ELSE LET clean == Trim(CollapseNewlines(cleanRawText(text)))
         IN IF isSecondary THEN <<"<i>">> \o clean \o <<"</i>">> ELSE clean

\* text.split(sep) for a one-token separator
RECURSIVE Split(_, _)
Split(text, sep) ==
    IF \E i \in 1..Len(text) : text[i] = sep
    THEN LET i == CHOOSE k \in 1..Len(text) :
                     text[k] = sep /\ \A l \in 1..(k - 1) : text[l] # sep
         IN <<SubSeq(text, 1, i - 1)>> \o Split(SubSeq(text, i + 1, Len(text)), sep)
    ELSE <<text>>

\* parts.join(sep)
RECURSIVE Join(_, _)
Join(parts, sep) ==
    IF parts = <<>> THEN <<>>
    ELSE IF Len(parts) = 1 THEN parts[1]
    ELSE parts[1] \o sep \o Join(Tail(parts), sep)

----------------------------------------------------------------------------
(* SRT codec *)

\* a block of an SRT content; shape "ok" is ordinal line, timecode line, text
Block(shape, index, startTime, endTime, text) ==
    [shape |-> shape, index |-> index, startTime |-> startTime,
     endTime |-> endTime, text |-> text]

\* a SubtitleEntry; m and parts are provenance (not in the program): the
\* position of the master cue an output cue is anchored on (0: none) and the
\* positions of the secondary cues whose text it carries
Entry(index, startTime, endTime, text, m, parts) ==
    [index |-> index, startTime |-> startTime, endTime |-> endTime,
     text |-> text, m |-> m, parts |-> parts]

\* parseSRT: blocks that are not of the shape are skipped
RECURSIVE parseSRT(_)
parseSRT(content) ==
    IF content = <<>> THEN <<>>
    ELSE LET block == Head(content)
         IN IF block.shape # "ok" THEN parseSRT(Tail(content))
            ELSE <<Entry(block.index, block.startTime, block.endTime,
                         block.text, 0, <<>>)>> \o parseSRT(Tail(content))

\* the JavaScript remainder (sign of the dividend)
JsRem(a, b) == IF a >= 0 THEN a % b ELSE 0 - ((0 - a) % b)

\* millisecondsToTimestamp, as its four numeric fields
millisecondsToTimestamp(ms) ==
    [hours        |-> ms \div 3600000,
     minutes      |-> JsRem(ms, 3600000) \div 60000,
     seconds      |-> JsRem(ms, 60000) \div 1000,
     milliseconds |-> JsRem(ms, 1000)]

\* serializeSRT: one block per entry, renumbered from 1; '' for no entry
serializeSRT(entries) ==
    [idx \in 1..Len(entries) |->
        [index |-> idx,
         startTimestamp |-> millisecondsToTimestamp(entries[idx].startTime),
         endTimestamp   |-> millisecondsToTimestamp(entries[idx].endTime),
         text |-> entries[idx].text]]

----------------------------------------------------------------------------
(* SRT codec on strings.  A string is the sequence of its lines (what
   split('\n') gives); a line is an ordinal, a timecode or a text. *)

ZeroStamp == [hours |-> 0, minutes |-> 0, seconds |-> 0, milliseconds |-> 0]

Line(kind, value, start, end, toks) ==
    [kind |-> kind, value |-> value, start |-> start, end |-> end, toks |-> toks]

\* `${index}`
IntLine(n) == Line("int", n, ZeroStamp, ZeroStamp, <<>>)

\* `${startTimestamp} --> ${endTimestamp}`
TimecodeLine(start, end) == Line("timecode", 0, start, end, <<>>)

\* a line of text; the empty line is TextLine(<<>>)
TextLine(toks) == Line("text", 0, ZeroStamp, ZeroStamp, toks)

\* a line \s* matches
IsBlank(line) ==
    line.kind = "text" /\ \A n \in 1..Len(line.toks) : line.toks[n] \in Whitespace

\* the characters of a line, as tokens
LineToks(line) ==
    CASE line.kind = "text"     -> line.toks
      [] line.kind = "int"      -> <<"<ordinal>">>
      [] line.kind = "timecode" -> <<"<timecode>">>

\* serializeSRT as a string: `${index}\n${start} --> ${end}\n${entry.text}\n`
\* for each entry, joined by '\n'
RECURSIVE serializeFrom(_, _)
serializeFrom(entries, idx) ==
    IF idx > Len(entries) THEN <<>>
    ELSE LET textLines == Split(entries[idx].text, "\n")
         IN <<IntLine(idx),
              TimecodeLine(millisecondsToTimestamp(entries[idx].startTime),
                           millisecondsToTimestamp(entries[idx].endTime))>>
            \o [n \in 1..Len(textLines) |-> TextLine(textLines[n])]
            \o <<TextLine(<<>>)>>
            \o serializeFrom(entries, idx + 1)

serializeSRTString(entries) == serializeFrom(entries, 1)

\* content.trim().split(/\n\s*\n/): the maximal runs of lines that are not
\* blank (the empty string gives one block of no such line)
RECURSIVE splitBlocks(_, _, _)
splitBlocks(lines, n, current) ==
    IF n > Len(lines)
    THEN IF current # <<>> THEN <<current>> ELSE <<>>
    ELSE IF IsBlank(lines[n])
         THEN (IF current # <<>> THEN <<current>> ELSE <<>>)
              \o splitBlocks(lines, n + 1, <<>>)
         ELSE splitBlocks(lines, n + 1, Append(current, lines[n]))

\* block.trim().split('\n')
trimBlock(block) ==
    [n \in 1..Len(block) |->
        IF block[n].kind # "text" THEN block[n]
        ELSE LET t1 == IF n = 1 THEN TrimStart(block[n].toks) ELSE block[n].toks
                 t2 == IF n = Len(block) THEN TrimEnd(t1) ELSE t1
             IN TextLine(t2)]

\* a slip: the ordinal line is not tested
IsNaNIndexNever(line) == FALSE

\* isNaN(parseInt(lines[0], 10)): parseInt reads the leading digits, so a
\* timecode line gives its hours
IsNaNIndex(line) ==
    \/ line.kind = "text"
    \/ line.kind = "timecode" /\ line.start.hours < 0

\* lines[1].match(/(\d{2}):(\d{2}):(\d{2}),(\d{3})\s*-->\s*(\d{2}):(\d{2}):(\d{2}),(\d{3})/)
timestampMatch(line) ==
    /\ line.kind = "timecode"
    /\ line.start.hours >= 0
    /\ line.start.minutes \in 0..99 /\ line.start.seconds \in 0..99
    /\ line.start.milliseconds \in 0..999
    /\ line.end.hours \in 0..99
    /\ line.end.minutes \in 0..99 /\ line.end.seconds \in 0..99
    /\ line.end.milliseconds \in 0..999

\* parseInt(h) * 3600000 + parseInt(m) * 60000 + parseInt(s) * 1000 + parseInt(ms);
\* (\d{2}) takes the last two digits of the hours of the start
stampValue(stamp) ==
    (stamp.hours % 100) * 3600000 + stamp.minutes * 60000
      + stamp.seconds * 1000 + stamp.milliseconds

\* the body of the loop over the blocks: the entry pushed, if any
parseBlock(block) ==
    LET lines == trimBlock(block)
    IN IF Len(lines) < 3 THEN <<>>
       ELSE IF IsNaNIndex(lines[1]) THEN <<>>
       ELSE IF ~timestampMatch(lines[2]) THEN <<>>
       ELSE <<Entry(IF lines[1].kind = "int" THEN lines[1].value
                    ELSE lines[1].start.hours,
                    stampValue(lines[2].start), stampValue(lines[2].end),
                    Join([n \in 1..(Len(lines) - 2) |-> LineToks(lines[n + 2])],
                         <<"\n">>),
                    0, <<>>)>>

RECURSIVE parseBlocks(_)
parseBlocks(blocks) ==
    IF blocks = <<>> THEN <<>>
    ELSE parseBlock(Head(blocks)) \o parseBlocks(Tail(blocks))

\* parseSRT on a string
parseSRTString(lines) == parseBlocks(splitBlocks(lines, 1, <<>>))

----------------------------------------------------------------------------
(* mergeSubtitles, master-anchored variants *)

\* a slip: the secondary cues are not shifted at all
adjustNothing(entries2, off) == entries2

\* a slip: only the start of the secondary cues is shifted
adjustStartOnly(entries2, off) ==
    [j \in 1..Len(entries2) |-> [entries2[j] EXCEPT !.startTime = @ + off]]

\* const adjustedEntries2 = offset !== 0 ? entries2.map(...) : entries2
adjustEntries(entries2, off) ==
    IF off # 0
    THEN [j \in 1..Len(entries2) |->
            [entries2[j] EXCEPT !.startTime = @ + off, !.endTime = @ + off]]
    ELSE entries2

\* a slip: the overlap test without the guard band
isOverlappingNoGuard(entry1, entry2) ==
    /\ entry1.startTime < entry2.endTime
    /\ entry1.endTime > entry2.startTime

\* the overlap test of the filter callback
isOverlapping(entry1, entry2) ==
    /\ entry1.startTime < entry2.endTime - GUARD
    /\ entry1.endTime > entry2.startTime + GUARD

\* the filter callback: positions of adjustedEntries2 kept for entry1
RECURSIVE FilterFrom(_, _, _, _, _)
FilterFrom(v, entry1, adjusted, used, j) ==
    IF j > Len(adjusted) THEN <<>>
    ELSE LET keep == IF v = "wordwrap"
                     THEN isOverlapping(entry1, adjusted[j])
                     ELSE j \notin used /\ isOverlapping(entry1, adjusted[j])
         IN (IF keep THEN <<j>> ELSE <<>>)
            \o FilterFrom(v, entry1, adjusted, used, j + 1)

\* a slip: the filter does not look at usedIndices2
overlappingIgnoringUsed(v, entry1, adjusted, used) == FilterFrom(v, entry1, adjusted, {}, 1)

overlappingOf(v, entry1, adjusted, used) == FilterFrom(v, entry1, adjusted, used, 1)

\* a slip: no overlapping cue is marked as used
SeqRangeNone(s) == {}

\* the positions overlapping.forEach adds to usedIndices2
SeqRange(s) == {s[i] : i \in 1..Len(s)}

\* processText of the word-wrap variant: the words of the cleaned text are
\* packed into lines of at most MAX_LINE_LENGTH characters
SplitWords(clean) ==
    LET isWs(tok) == tok \in Whitespace
        Starts == {i \in 1..Len(clean) :
                      ~isWs(clean[i]) /\ (i = 1 \/ isWs(clean[i - 1]))}
        EndOf(i) == CHOOSE k \in i..Len(clean) :
                      /\ \A l \in i..k : ~isWs(clean[l])
                      /\ (k = Len(clean) \/ isWs(clean[k + 1]))
        RECURSIVE From(_)
        From(i) ==
            IF i > Len(clean) THEN <<>>
            ELSE IF i \in Starts
                 THEN <<SubSeq(clean, i, EndOf(i))>> \o From(EndOf(i) + 1)
                 ELSE From(i + 1)
    IN IF clean = <<>> THEN << <<>> >> ELSE From(1)

RECURSIVE WrapFrom(_, _, _)
WrapFrom(words, i, currentLine) ==
    IF i > Len(words)
    THEN IF currentLine # <<>> THEN <<currentLine>> ELSE <<>>
    ELSE IF TextLen(currentLine) + 1 + TextLen(words[i]) <= MAX_LINE_LENGTH
         THEN WrapFrom(words, i + 1, currentLine \o <<" ">> \o words[i])
         ELSE <<currentLine>> \o WrapFrom(words, i + 1, words[i])

\* a slip: the words are joined without the line breaks
processTextUnwrapped(text, isSecondary) ==
    IF text = <<>> THEN <<>>
    ELSE LET final == Join(SplitWords(cleanRawText(text)), <<" ">>)
         IN IF isSecondary THEN <<"<i>">> \o final \o <<"</i>">> ELSE final

processText(text, isSecondary) ==
    IF text = <<>> THEN <<>>
    ELSE LET clean == cleanRawText(text)
             words == SplitWords(clean)
             final == Join(WrapFrom(words, 2, words[1]), <<"\n">>)
         IN IF isSecondary THEN <<"<i>">> \o final \o <<"</i>">> ELSE final

\* a slip: the master text is tested before it is cleaned
PrimaryTextRaw(v, text) == text

\* text of the master cue as the loop tests it (`if (!text1) continue`)
PrimaryText(v, text) ==
    CASE v = "strict"     -> cleanText(text, FALSE)
      [] v = "wordwrap"   -> processText(text, FALSE)
      [] v = "sidebyside" -> cleanRawText(text)

\* text of the overlapping secondary cues
SecondaryText(v, adjusted, overlapping) ==
    IF overlapping = <<>> THEN <<>>
    ELSE CASE v = "strict" ->
                Join([k \in 1..Len(overlapping) |->
                        cleanText(adjusted[overlapping[k]].text, TRUE)], <<" ">>)
           [] v = "wordwrap" ->
                processText(Join([k \in 1..Len(overlapping) |->
                                    adjusted[overlapping[k]].text], <<" ">>), TRUE)
           [] v = "sidebyside" ->
                Join([k \in 1..Len(overlapping) |->
                        cleanRawText(adjusted[overlapping[k]].text)], <<" ">>)

\* one line of the side-by-side layout
SideBySideLine(seg1, rawSeg2) ==
    LET seg2 == IF rawSeg2 # <<>> THEN <<"<i>">> \o rawSeg2 \o <<"</i>">> ELSE <<>>
        paddedSeg1 == IF TextLen(seg1) < COL_WIDTH
                      THEN seg1 \o Spaces(COL_WIDTH - TextLen(seg1))
                      ELSE seg1
    IN IF seg1 # <<>> /\ seg2 # <<>> THEN <<paddedSeg1 \o <<"   |   ">> \o seg2>>
       ELSE IF seg1 # <<>> THEN <<seg1>>
       ELSE IF seg2 # <<>> THEN <<Spaces(COL_WIDTH) \o <<"   |   ">> \o seg2>>
       ELSE <<>>

SideBySide(rawText1, rawText2) ==
    LET lines1 == Split(rawText1, "\n")
        lines2 == IF rawText2 # <<>> THEN Split(rawText2, "\n") ELSE <<>>
        maxLines == IF Len(lines1) >= Len(lines2) THEN Len(lines1) ELSE Len(lines2)
        At(lines, i) == IF i <= Len(lines) THEN lines[i] ELSE <<>>
        RECURSIVE Lines(_)
        Lines(i) == IF i > maxLines THEN <<>>
                    ELSE SideBySideLine(At(lines1, i), At(lines2, i)) \o Lines(i + 1)
    IN Join(Lines(1), <<"\n">>)

\* text of the output cue of a master cue
CombinedText(v, text1, text2) ==
    CASE v = "sidebyside" -> SideBySide(text1, text2)
      [] OTHER -> IF text2 # <<>> THEN text1 \o <<"\n", "\n">> \o text2 ELSE text1

\* 1. Process Master Entries: the loop over entries1, from position i on;
\* st = [processed |-> processedEntries, used |-> usedIndices2]
RECURSIVE MasterLoop(_, _, _, _, _)
MasterLoop(v, entries1, adjusted, i, st) ==
    IF i > Len(entries1) THEN st
    ELSE LET entry1 == entries1[i]
             text1 == PrimaryText(v, entry1.text)
         IN IF text1 = <<>> THEN MasterLoop(v, entries1, adjusted, i + 1, st)
            ELSE LET overlapping == overlappingOf(v, entry1, adjusted, st.used)
                     text2 == SecondaryText(v, adjusted, overlapping)
                     out == Entry(0, entry1.startTime, entry1.endTime,
                                  CombinedText(v, text1, text2), i, overlapping)
                 IN MasterLoop(v, entries1, adjusted, i + 1,
                               [processed |-> Append(st.processed, out),
                                used |-> st.used \cup SeqRange(overlapping)])

\* a slip: the orphan pass pushes nothing
OrphanTextLost(v, text) == <<>>

\* text of an orphan cue as the orphan pass tests it
OrphanText(v, text) ==
    CASE v = "strict"     -> cleanText(text, TRUE)
      [] v = "wordwrap"   -> processText(text, TRUE)
      [] v = "sidebyside" ->
            LET rawText2 == cleanRawText(text)
            IN IF rawText2 = <<>> THEN <<>>
               ELSE LET lines == Split(rawText2, "\n")
                    IN Join([k \in 1..Len(lines) |->
                               Spaces(COL_WIDTH) \o <<"   |   ", "<i>">>
                                 \o lines[k] \o <<"</i>">>], <<"\n">>)

\* 2. Add Orphan Entries: the forEach over adjustedEntries2, from position j on
RECURSIVE OrphanPass(_, _, _, _, _)
OrphanPass(v, adjusted, used, j, processed) ==
    IF j > Len(adjusted) THEN processed
    ELSE LET pText2 == OrphanText(v, adjusted[j].text)
         IN IF j \notin used /\ pText2 # <<>>
            THEN OrphanPass(v, adjusted, used, j + 1,
                            Append(processed,
                                   Entry(0, adjusted[j].startTime,
                                         adjusted[j].endTime, pText2, 0, <<j>>)))
            ELSE OrphanPass(v, adjusted, used, j + 1, processed)

\* a slip: a sort that puts an entry before the entries starting at the same time
RECURSIVE InsertBeforeEqual(_, _)
InsertBeforeEqual(sorted, e) ==
    IF sorted = <<>> THEN <<e>>
    ELSE IF Head(sorted).startTime - e.startTime < 0
         THEN <<Head(sorted)>> \o InsertBeforeEqual(Tail(sorted), e)
         ELSE <<e>> \o sorted

\* processedEntries.sort((a, b) => a.startTime - b.startTime): Array.prototype.sort
\* is stable; an entry is inserted after the entries that do not start later
RECURSIVE InsertSorted(_, _)
InsertSorted(sorted, e) ==
    IF sorted = <<>> THEN <<e>>
    ELSE IF Head(sorted).startTime - e.startTime <= 0
         THEN <<Head(sorted)>> \o InsertSorted(Tail(sorted), e)
         ELSE <<e>> \o sorted

RECURSIVE SortByStartTime(_)
SortByStartTime(entries) ==
    IF entries = <<>> THEN <<>>
    ELSE InsertSorted(SortByStartTime(SubSeq(entries, 1, Len(entries) - 1)),
                      entries[Len(entries)])

\* 3. Sort by start time and reindex
Reindex(entries) == [idx \in 1..Len(entries) |-> [entries[idx] EXCEPT !.index = idx]]

\* what a call returns: out is the returned string (its blocks; <<>> is ''),
\* cues the entries behind it, degenerate whether the early return was taken
Returned(out, cues, degenerate) == [out |-> out, cues |-> cues, degenerate |-> degenerate]

\* what a call that has not happened leaves behind
NothingLeft == [processed |-> <<>>, used |-> {}]

\* a slip: processedEntries and usedIndices2 outlive the call
localsKept(left) == left

\* const processedEntries = [] and const usedIndices2 = new Set(): both are
\* created by the call, whatever the call before left in its own
locals(left) == [processed |-> <<>>, used |-> {}]

\* the call, seen with what it leaves in processedEntries and usedIndices2
mergeAnchoredAfter(v, content1, content2, off, left) ==
    LET entries1 == parseSRT(content1)
        entries2 == parseSRT(content2)
    IN IF Len(entries1) = 0 \/ Len(entries2) = 0
       THEN [result |-> Returned(<<>>, <<>>, TRUE), left |-> left]
       ELSE LET adjusted == adjustEntries(entries2, off)
                st == MasterLoop(v, entries1, adjusted, 1, locals(left))
                processedEntries == OrphanPass(v, adjusted, st.used, 1, st.processed)
                finalEntries == Reindex(SortByStartTime(processedEntries))
            IN [result |-> Returned(serializeSRT(finalEntries), finalEntries, FALSE),
                left |-> [processed |-> processedEntries, used |-> st.used]]

mergeAnchored(v, content1, content2, off) ==
    mergeAnchoredAfter(v, content1, content2, off, NothingLeft).result

----------------------------------------------------------------------------
(* mergeSubtitles, original interval-union variant *)

\* Array.from(allTimes).sort((a, b) => a - b)
RECURSIVE SortedTimes(_)
SortedTimes(times) ==
    IF times = {} THEN <<>>
    ELSE LET least == CHOOSE t \in times : \A u \in times : t <= u
         IN <<least>> \o SortedTimes(times \ {least})

\* entries.find(e => e.startTime <= startTime && e.endTime >= endTime): the
\* position of the first such entry, 0 for undefined
FindCovering(entries, startTime, endTime) ==
    LET hits == {k \in 1..Len(entries) :
                    entries[k].startTime <= startTime /\ entries[k].endTime >= endTime}
    IN IF hits = {} THEN 0 ELSE CHOOSE k \in hits : \A l \in hits : k <= l

RECURSIVE UnionLoop(_, _, _, _, _)
UnionLoop(entries1, adjusted, sortedTimes, i, mergedEntries) ==
    IF i > Len(sortedTimes) - 1 THEN mergedEntries
    ELSE LET startTime == sortedTimes[i]
             endTime == sortedTimes[i + 1]
             sub1 == FindCovering(entries1, startTime, endTime)
             sub2 == FindCovering(adjusted, startTime, endTime)
             text1 == IF sub1 # 0 THEN entries1[sub1].text ELSE <<>>
             text2 == IF sub2 # 0 THEN adjusted[sub2].text ELSE <<>>
             combinedText == IF text1 # <<>> /\ text2 # <<>>
                             THEN text1 \o <<"\n">> \o text2
                             ELSE IF text1 # <<>> THEN text1 ELSE text2
         IN IF sub1 # 0 \/ sub2 # 0
            THEN UnionLoop(entries1, adjusted, sortedTimes, i + 1,
                           Append(mergedEntries,
                                  Entry(Len(mergedEntries) + 1, startTime, endTime,
                                        combinedText, sub1,
                                        IF sub2 # 0 THEN <<sub2>> ELSE <<>>)))
            ELSE UnionLoop(entries1, adjusted, sortedTimes, i + 1, mergedEntries)

mergeUnion0(content1, content2, off) ==
    LET entries1 == parseSRT(content1)
        entries2 == parseSRT(content2)
        adjusted == [j \in 1..Len(entries2) |->
                        [entries2[j] EXCEPT !.startTime = @ + off, !.endTime = @ + off]]
        allTimes == {entries1[k].startTime : k \in 1..Len(entries1)}
                    \cup {entries1[k].endTime : k \in 1..Len(entries1)}
                    \cup {adjusted[k].startTime : k \in 1..Len(adjusted)}
                    \cup {adjusted[k].endTime : k \in 1..Len(adjusted)}
        mergedEntries == UnionLoop(entries1, adjusted, SortedTimes(allTimes), 1, <<>>)
    IN Returned(serializeSRT(mergedEntries), mergedEntries, FALSE)

----------------------------------------------------------------------------
(* mergeSubtitles, the interval-union variants that merge a segment into the
   previous entry:
     "union400"     src/unnamed/part_009:9-97 (segments under 400 ms skipped,
                    merged when the previous entry ends where the segment starts)
     "unionbridge"  src/unnamed/part_010:172-283 (segments under 50 ms
                    skipped, merged across a gap of at most 500 ms) *)

\* the literals of the two loops
MIN_SEGMENT_400 == 400
MIN_SEGMENT_50 == 50
BRIDGE_GAP == 500

\* the tag written before the second text: {\c&H00FFFF&}
YellowTag == "{c&H00FFFF&}"

\* entries.find(e => e.startTime <= midPoint && e.endTime >= midPoint) with
\* midPoint = startTime + (endTime - startTime) / 2, compared on the doubled
\* values: the position of the first such entry, 0 for undefined
FindAtMidPoint(entries, startTime, endTime) ==
    LET hits == {k \in 1..Len(entries) :
                    /\ 2 * entries[k].startTime <= startTime + endTime
                    /\ 2 * entries[k].endTime >= startTime + endTime}
    IN IF hits = {} THEN 0 ELSE CHOOSE k \in hits : \A l \in hits : k <= l

\* sub.text.split('\n')[0].trim()
firstLine(text) == Trim(Split(text, "\n")[1])

\* .replace(/\n/g, ' ').replace(/\s+/g, ' '): every run of whitespace becomes
\* one space
RECURSIVE CollapseWhitespace(_)
CollapseWhitespace(text) ==
    IF text = <<>> THEN <<>>
    ELSE IF Head(text) \in Whitespace
         THEN IF Len(text) >= 2 /\ text[2] \in Whitespace
              THEN CollapseWhitespace(Tail(text))
              ELSE <<" ">> \o CollapseWhitespace(Tail(text))
         ELSE <<Head(text)>> \o CollapseWhitespace(Tail(text))

\* processText of part_010:237-240, on cleanText of part_010:210-216
processTextUnion(text) == Trim(CollapseWhitespace(Trim(StripTags(text))))

\* text1 and text2 of a found entry
unionText(v, text) == IF v = "union400" THEN firstLine(text) ELSE processTextUnion(text)

\* combinedText
unionCombined(v, text1, text2) ==
    IF text2 = <<>> THEN text1
    ELSE (IF text1 # <<>> THEN text1 \o <<"\n">> ELSE <<>>)
         \o (IF v = "union400" THEN <<YellowTag>> ELSE <<>>) \o text2

\* a slip: a segment is never merged into the previous entry
mergesWithPrevNever(v, prev, combinedText, startTime) == FALSE

\* part_009:81  prev.text === combinedText && prev.endTime === startTime
\* part_010:263-265  prev.text === combinedText and gap <= 500
mergesWithPrev(v, prev, combinedText, startTime) ==
    /\ prev.text = combinedText
    /\ IF v = "union400" THEN prev.endTime = startTime
       ELSE startTime - prev.endTime <= BRIDGE_GAP

\* the loop over the segments, from uniqueTimes[i] on
RECURSIVE UnionMergeLoop(_, _, _, _, _, _)
UnionMergeLoop(v, entries1, adjusted, uniqueTimes, i, mergedEntries) ==
    IF i > Len(uniqueTimes) - 1 THEN mergedEntries
    ELSE LET startTime == uniqueTimes[i]
             endTime == uniqueTimes[i + 1]
             tooShort == endTime - startTime <
                            (IF v = "union400" THEN MIN_SEGMENT_400 ELSE MIN_SEGMENT_50)
             sub1 == FindAtMidPoint(entries1, startTime, endTime)
             sub2 == FindAtMidPoint(adjusted, startTime, endTime)
             text1 == IF sub1 # 0 THEN unionText(v, entries1[sub1].text) ELSE <<>>
             text2 == IF sub2 # 0 THEN unionText(v, adjusted[sub2].text) ELSE <<>>
             combinedText == unionCombined(v, text1, text2)
             n == Len(mergedEntries)
         IN IF tooShort \/ (sub1 = 0 /\ sub2 = 0) \/ (text1 = <<>> /\ text2 = <<>>)
            THEN UnionMergeLoop(v, entries1, adjusted, uniqueTimes, i + 1, mergedEntries)
            ELSE IF n > 0 /\ mergesWithPrev(v, mergedEntries[n], combinedText, startTime)
            THEN UnionMergeLoop(v, entries1, adjusted, uniqueTimes, i + 1,
                                [mergedEntries EXCEPT ![n].endTime = endTime])
            ELSE UnionMergeLoop(v, entries1, adjusted, uniqueTimes, i + 1,
                                Append(mergedEntries,
                                       Entry(n + 1, startTime, endTime, combinedText,
                                             sub1, IF sub2 # 0 THEN <<sub2>> ELSE <<>>)))

mergeUnion(v, content1, content2, off) ==
    LET entries1 == parseSRT(content1)
        entries2 == parseSRT(content2)
    IN IF Len(entries1) = 0 \/ Len(entries2) = 0
       THEN Returned(<<>>, <<>>, TRUE)
       ELSE LET adjusted == adjustEntries(entries2, off)
                allTimes == {entries1[k].startTime : k \in 1..Len(entries1)}
                            \cup {entries1[k].endTime : k \in 1..Len(entries1)}
                            \cup {adjusted[k].startTime : k \in 1..Len(adjusted)}
                            \cup {adjusted[k].endTime : k \in 1..Len(adjusted)}
                mergedEntries == UnionMergeLoop(v, entries1, adjusted,
                                                SortedTimes(allTimes), 1, <<>>)
            IN Returned(serializeSRT(mergedEntries), mergedEntries, FALSE)

\* the mergeSubtitles the build links
mergeSubtitles(v, content1, content2, off) ==
    IF v = "union0" THEN mergeUnion0(content1, content2, off)
    ELSE IF v \in {"union400", "unionbridge"} THEN mergeUnion(v, content1, content2, off)
    ELSE mergeAnchored(v, content1, content2, off)

----------------------------------------------------------------------------
(* Inputs *)

Anchored == {"strict", "wordwrap", "sidebyside"}
Variants == Anchored \cup {"union0"}
Coalescing == {"union400", "unionbridge"}

\* a fetched content: null, or a string (its blocks; no block is '')
Null == [null |-> TRUE, blocks |-> <<>>]
Str(blocks) == [null |-> FALSE, blocks |-> blocks]

\* JavaScript truthiness of string | null
Truthy(content) == ~content.null /\ content.blocks # <<>>

MasterTexts == { <<"<i>", "Hello", "</i>">>, <<"<b>", "</b>">> }
SecondaryTexts == { <<"Bonjour", "\r", "\n", "monde">>, <<"{an8}">> }

\* the cues a content is made of: end > start, one of the texts
CuesOf(times, texts) ==
    {b \in {Block("ok", 1, s, e, t) : s \in times, e \in times, t \in texts} :
        b.endTime > b.startTime}

\* the blocks of a file are numbered from 1
Numbered(blocks) == [i \in 1..Len(blocks) |-> [blocks[i] EXCEPT !.index = i]]

\* the contents: up to MaxCues cues, or one block that is not of the shape
ContentsOf(times, texts) ==
    {Numbered(f) : f \in UNION {[1..n -> CuesOf(times, texts)] : n \in 0..MaxCues}}
    \cup {<<Block("malformed", 1, 0, 0, <<>>)>>}

Cue(index, startTime, endTime, text) == Block("ok", index, startTime, endTime, text)

\* the worked examples of the specification's section 8
Scenarios == {
    \* one cue inside the other
    [srt1 |-> <<Cue(1, 0, 2000, <<"Hello">>)>>,
     srt2 |-> <<Cue(1, 500, 1500, <<"Bonjour">>)>>],
    \* a short secondary cue straddling the boundary of two master cues
    [srt1 |-> <<Cue(1, 0, 1000, <<"Hello">>), Cue(2, 1000, 2000, <<"Hi">>)>>,
     srt2 |-> <<Cue(1, 995, 1005, <<"Bonjour">>)>>],
    \* a secondary cue centred over the second master cue
    [srt1 |-> <<Cue(1, 0, 1000, <<"Hello">>), Cue(2, 1000, 2000, <<"Hi">>)>>,
     srt2 |-> <<Cue(1, 1400, 1600, <<"Bonjour">>)>>],
    \* no master cue
    [srt1 |-> <<>>,
     srt2 |-> <<Cue(1, 0, 1000, <<"Hi">>)>>],
    \* a secondary cue spanning three short master cues
    [srt1 |-> <<Cue(1, 0, 1000, <<"Hello">>), Cue(2, 1000, 2000, <<"Hi">>),
                Cue(3, 2000, 3000, <<"Hello">>)>>,
     srt2 |-> <<Cue(1, 0, 3000, <<"Bonjour">>)>>],
    \* two secondary cues under one master cue
    [srt1 |-> <<Cue(1, 0, 2000, <<"Hello">>)>>,
     srt2 |-> <<Cue(1, 0, 1000, <<"Bonjour">>), Cue(2, 1000, 2000, <<"monde">>)>>] }

----------------------------------------------------------------------------
(* State machine *)

NoResult == Returned(<<>>, <<>>, FALSE)
NoResponse == [status |-> 0, body |-> <<>>, subtitles |-> <<>>]

\* no codec call, no translateBatch call
NoCodec == [pc |-> "idle", op |-> "none", seq |-> <<>>, blocks |-> <<>>,
            content |-> <<>>, entries |-> <<>>]
NoTr == [pc |-> "idle"]

\* new Map(), the clock at 0; no call of the fetch layer; no scoring call
NoCache == [map |-> <<>>, now |-> 0, last |-> <<>>,
            op |-> [name |-> "none", key |-> <<>>, result |-> "null", at |-> 0]]
NoFetch == [pc |-> "idle"]
NoPick == [pc |-> "idle"]
NoClient == [pc |-> "idle"]
NoRepeat == [pc |-> "idle"]
NoStorage == [pc |-> "idle"]
NoRotation == [pc |-> "idle"]

----------------------------------------------------------------------------
(* translateBatch.  The implementations in the repository:
     "priority"   src/src/services/translator.ts:53-164
                  (LibreTranslate, then DeepL, then Google in chunks)
     "native5"    src/unnamed/part_012:163-235 (Google in chunks, retries = 5)
     "sequential" src/unnamed/part_013:47-95   (Google line by line)
   and the LibreTranslate clients: "all" (libretranslate-client.ts:71-90,
   Promise.all only), "fallback" (:165-205, line by line after a failure),
   "none" (not configured).
   A result is [from |-> position of the input line it was made from
   (0: none), how |-> "translated" | "original" | "cleaned" (made from the ''
   sent in place of the line) | "undefined" | "empty"].
   tr.by[k] is the provider whose code wrote results[k] last, and tr.stages
   the providers in the order they were reached, each with how it ended
   ("unavailable" | "failed" | "completed") and how many positions it had
   written; both are kept for the properties. *)

MAX_CHUNK_SIZE == 3
CONCURRENCY == 2

\* lines handed to DeepL at once; 50 in the source, 2 here so that a list of
\* MaxLines lines takes several calls
DEEPL_CHUNK_SIZE == 2

Impls == {"priority", "native5", "sequential"}

\* !text.trim()
IsBlankText(text) == text = " "

\* !text.trim() || /^\d+$/.test(text.trim())
Skippable(text) == IsBlankText(text) \/ text = "42"

Res(from, how) == [from |-> from, how |-> how]

Min(a, b) == IF a <= b THEN a ELSE b

\* processChunk(chunk, indices, retries = 2), retries = 5 in the older file
InitialRetries(impl) == IF impl = "native5" THEN 5 ELSE 2

\* a slip: the same delay before every retry
backoffConstant(retries) == 5000

\* 5000 * Math.pow(2, 2 - retries)
backoffDelay(retries) ==
    IF retries <= 2 THEN 5000 * 2^(2 - retries) ELSE 5000 \div 2^(retries - 2)

\* a slip: the indices of a chunk do not start at the chunk
chunkIndicesFromZero(i, len) == [idx \in 1..len |-> idx]

\* const indices = chunk.map((_, idx) => i + idx), as positions from 1
chunkIndices(i, len) == [idx \in 1..len |-> i + idx - 1]

\* results[indices[idx]] = ... for the lines of the chunk that starts at i
WriteChunk(results, i, indices, hows) ==
    [k \in 1..Len(results) |->
        IF \E idx \in 1..Len(indices) : indices[idx] = k
        THEN LET idx == CHOOSE x \in 1..Len(indices) :
                           indices[x] = k /\ \A y \in 1..Len(indices) :
                                                indices[y] = k => y <= x
             IN Res(i + idx - 1, hows[idx])
        ELSE results[k]]

\* wrote: how many positions of results the provider had written by then
Stage(provider, ended, wrote) == [provider |-> provider, ended |-> ended, wrote |-> wrote]

\* a slip: the catch of processChunk leaves results alone
caughtIndicesNone(indices) == <<>>

\* chunk.forEach((txt, i) => { results[indices[i]] = txt; }): the positions
\* the catch of processChunk writes
caughtIndices(indices) == indices

\* the provider code that wrote the positions of indices last
WrittenBy(by, indices, provider) ==
    [k \in 1..Len(by) |->
        IF \E idx \in 1..Len(indices) : indices[idx] = k THEN provider ELSE by[k]]

\* LibreTranslateClient.translate on line k: the line itself when it is blank,
\* an exception when the server fails on it (how "throws")
libreTranslate(texts, bad, k) ==
    IF IsBlankText(texts[k]) THEN "original"
    ELSE IF k \in bad THEN "throws" ELSE "translated"

\* LibreTranslateClient.translateBatch: the results, or the exception
libreTranslateBatch(client, texts, bad) ==
    LET n == Len(texts)
    IN IF client = "all"
       THEN IF \E k \in 1..n : libreTranslate(texts, bad, k) = "throws"
            THEN [throws |-> TRUE, out |-> <<>>]
            ELSE [throws |-> FALSE,
                  out |-> [k \in 1..n |-> Res(k, libreTranslate(texts, bad, k))]]
       ELSE \* a chunk of CONCURRENT_REQUESTS lines is retried line by line,
            \* a line that fails again is pushed as it is
            [throws |-> FALSE,
             out |-> [k \in 1..n |->
                        Res(k, IF libreTranslate(texts, bad, k) = "throws" THEN "original"
                               ELSE libreTranslate(texts, bad, k))]]

\* the lists handed to translateBatch: a line the providers translate, a line
\* they fail on, a line of digits, a blank line
LineKinds == {"ok", "bad", "num", "blank"}

TextOfKind(kind) ==
    CASE kind = "ok" -> "Hello" [] kind = "bad" -> "Hi"
      [] kind = "num" -> "42"   [] kind = "blank" -> " "

\* translateBatch(texts, from, to) is called
InitTranslate ==
    /\ variant = "strict" /\ route = "translate"
    /\ srt1 = Null /\ srt2 = Null /\ offset = 0
    /\ pc = "done" /\ merged = NoResult /\ response = NoResponse
    /\ codec = NoCodec
    /\ cache = NoCache /\ fetch = NoFetch /\ pick = NoPick /\ openSubtitlesClient = NoClient
    /\ repeat = NoRepeat /\ subtitleStorage = NoStorage /\ rotation = NoRotation
    /\ \E n \in 0..MaxLines : \E kinds \in [1..n -> LineKinds] :
       \E impl \in Impls :
       \E client \in (IF impl = "priority" THEN {"none", "all", "fallback"} ELSE {"none"}) :
       \E deepl \in (IF impl = "priority" THEN BOOLEAN ELSE {FALSE}) :
          tr = [pc |-> CASE impl = "priority" -> "libre"
                         [] impl = "native5" -> "google"
                         [] impl = "sequential" -> "sequential",
                impl |-> impl, libre |-> client, deepl |-> deepl,
                texts |-> [k \in 1..n |-> TextOfKind(kinds[k])],
                bad |-> {k \in 1..n : kinds[k] = "bad"},
                results |-> [k \in 1..n |->
                               Res(0, IF impl = "priority" THEN "undefined" ELSE "empty")],
                i |-> 1, retries |-> InitialRetries(impl),
                delays |-> <<>>, exhausted |-> {}, throttled |-> FALSE,
                cache |-> {}, errorCount |-> 0,
                by |-> [k \in 1..n |-> "none"], stages |-> <<>>]

TrUnchanged ==
    UNCHANGED <<variant, route, srt1, srt2, offset, pc, merged, response, codec,
                cache, fetch, pick, openSubtitlesClient,
                repeat, subtitleStorage, rotation>>

\* PRIORITY 1: LibreTranslate
LibreStage ==
    /\ tr.pc = "libre"
    /\ IF tr.libre = "none"
       THEN tr' = [tr EXCEPT !.pc = "deepl", !.i = 1,
                             !.stages = Append(@, Stage("libre", "unavailable", 0))]
       ELSE LET translated == libreTranslateBatch(tr.libre, tr.texts, tr.bad)
            IN IF translated.throws
               THEN tr' = [tr EXCEPT !.pc = "deepl", !.i = 1,
                                     !.stages = Append(@, Stage("libre", "failed", 0))]
               ELSE tr' = [tr EXCEPT !.results =
                                        [k \in 1..Len(tr.results) |->
                                            IF k <= Len(translated.out) THEN translated.out[k]
                                            ELSE tr.results[k]],
                                     !.by = WrittenBy(@, [k \in 1..Len(translated.out) |-> k],
                                                      "libre"),
                                     !.stages = Append(@, Stage("libre", "completed", Len(translated.out))),
                                     !.pc = "done"]
    /\ TrUnchanged

\* PRIORITY 2: DeepL, one call of deeplTranslator.translateBatch for the chunk
\* that starts at tr.i; the call fails on a line DeepL cannot translate, or
\* when the quota of every key is used up
DeepLStage ==
    /\ tr.pc = "deepl"
    /\ IF ~tr.deepl
       THEN tr' = [tr EXCEPT !.pc = "google", !.i = 1,
                             !.stages = Append(@, Stage("deepl", "unavailable", 0))]
       ELSE IF tr.i > Len(tr.texts)
       THEN tr' = [tr EXCEPT !.pc = "done",
                             !.stages = Append(@, Stage("deepl", "completed", Len(tr.texts)))]
       ELSE LET len == Min(tr.i + DEEPL_CHUNK_SIZE - 1, Len(tr.texts)) - tr.i + 1
                indices == chunkIndices(tr.i, len)
            IN \E quota \in BOOLEAN :
                 IF quota \/ \E idx \in 1..len : indices[idx] \in tr.bad
                 THEN tr' = [tr EXCEPT !.pc = "google", !.i = 1,
                                       !.stages = Append(@, Stage("deepl", "failed", tr.i - 1))]
                 ELSE tr' = [tr EXCEPT !.results =
                                          WriteChunk(tr.results, tr.i, indices,
                                                     [idx \in 1..len |-> "translated"]),
                                       !.by = WrittenBy(@, indices, "deepl"),
                                       !.i = tr.i + DEEPL_CHUNK_SIZE]
    /\ TrUnchanged

\* PRIORITY 3: one call of translate(cleanChunk, ...) by processChunk, for the
\* chunk that starts at tr.i; the provider answers 429, or fails on a line, or
\* returns one result for each string
GoogleCall ==
    /\ tr.pc = "google" /\ tr.i <= Len(tr.texts)
    /\ LET n == Len(tr.texts)
           len == Min(tr.i + MAX_CHUNK_SIZE - 1, n) - tr.i + 1
           indices == chunkIndices(tr.i, len)
           content(idx) == ~Skippable(tr.texts[tr.i + idx - 1])
           originals == [idx \in 1..len |-> "original"]
           next == [tr EXCEPT !.i = tr.i + MAX_CHUNK_SIZE,
                              !.retries = InitialRetries(tr.impl)]
       IN IF tr.impl = "native5" /\ ~\E idx \in 1..len : content(idx)
          THEN tr' = [next EXCEPT !.results = WriteChunk(tr.results, tr.i, indices, originals),
                                  !.by = WrittenBy(@, indices, "google")]
          ELSE \E status429 \in BOOLEAN :
                 IF status429
                 THEN IF tr.retries > 0
                      THEN tr' = [tr EXCEPT !.retries = tr.retries - 1,
                                            !.throttled = TRUE,
                                            !.delays = Append(tr.delays,
                                                [chunk |-> tr.i,
                                                 delay |-> backoffDelay(tr.retries)])]
                      ELSE tr' = [next EXCEPT !.results =
                                                 WriteChunk(tr.results, tr.i,
                                                            caughtIndices(indices), originals),
                                              !.by = WrittenBy(@, caughtIndices(indices),
                                                               "google"),
                                              !.throttled = TRUE,
                                              !.exhausted = tr.exhausted \cup {tr.i},
                                              !.errorCount = tr.errorCount + 1]
                 ELSE IF \E idx \in 1..len : content(idx) /\ (tr.i + idx - 1) \in tr.bad
                      THEN tr' = [next EXCEPT !.results =
                                                 WriteChunk(tr.results, tr.i,
                                                            caughtIndices(indices), originals),
                                              !.by = WrittenBy(@, caughtIndices(indices),
                                                               "google"),
                                              !.errorCount = tr.errorCount + 1]
                      ELSE tr' = [next EXCEPT !.results =
                                      WriteChunk(tr.results, tr.i, indices,
                                          [idx \in 1..len |->
                                              IF content(idx) THEN "translated" ELSE "cleaned"]),
                                              !.by = WrittenBy(@, indices, "google")]
    /\ TrUnchanged

\* the sequential implementation: one Promise.all over CONCURRENCY calls of
\* processItem; translateText answers from the cache, or asks the provider and
\* returns the line itself when the provider fails or answers 429
SequentialBatch ==
    /\ tr.pc = "sequential" /\ tr.i <= Len(tr.texts)
    /\ LET n == Len(tr.texts)
           batch == tr.i..Min(tr.i + CONCURRENCY - 1, n)
       IN \E status429 \in SUBSET batch :
             LET how(k) ==
                    IF Skippable(tr.texts[k]) THEN "original"
                    ELSE IF tr.texts[k] \in tr.cache THEN "translated"
                    ELSE IF k \in tr.bad \/ k \in status429 THEN "original"
                    ELSE "translated"
                 asked == {k \in batch : ~Skippable(tr.texts[k]) /\ tr.texts[k] \notin tr.cache}
             IN /\ status429 \subseteq asked
                /\ tr' = [tr EXCEPT
                            !.results = [k \in 1..n |->
                                           IF k \in batch THEN Res(k, how(k))
                                           ELSE tr.results[k]],
                            !.cache = tr.cache \cup
                                        {tr.texts[k] : k \in {x \in asked : how(x) = "translated"}},
                            !.throttled = tr.throttled \/ status429 # {},
                            !.i = tr.i + CONCURRENCY]
    /\ TrUnchanged

\* return { translated: results, errorCount } after the last chunk
ReturnResults ==
    /\ tr.pc \in {"google", "sequential"} /\ tr.i > Len(tr.texts)
    /\ tr' = [tr EXCEPT !.pc = "done",
                        !.stages = Append(@, Stage("google", "completed", Len(tr.texts)))]
    /\ TrUnchanged

NextTranslate ==
    LibreStage \/ DeepLStage \/ GoogleCall \/ SequentialBatch \/ ReturnResults

\* mergeSubtitles is called directly, by a build that links one of `variants`
InitCall(variants) ==
    /\ variant \in variants
    /\ route = "call"
    /\ \/ /\ srt1 \in {Str(c) : c \in ContentsOf(MasterTimes, MasterTexts)}
          /\ srt2 \in {Str(c) : c \in ContentsOf(SecondaryTimes, SecondaryTexts)}
          /\ offset \in Offsets
       \/ /\ \E sc \in Scenarios : srt1 = Str(sc.srt1) /\ srt2 = Str(sc.srt2)
          /\ offset = 0
    /\ pc = "start"
    /\ merged = NoResult
    /\ response = NoResponse
    /\ codec = NoCodec
    /\ tr = NoTr
    /\ cache = NoCache /\ fetch = NoFetch /\ pick = NoPick /\ openSubtitlesClient = NoClient
    /\ repeat = NoRepeat /\ subtitleStorage = NoStorage /\ rotation = NoRotation

\* cue boundaries for the coalescing variants: segments of 1000, 300 and
\* 700 ms, and a gap of 300 or 1000 ms between two cues
UnionMasterTimes == {0, 1000, 2000}
UnionSecondaryTimes == {0, 1000, 1300, 2000}
UnionMasterTexts == { <<"Hello">> }
UnionSecondaryTexts == { <<"Bonjour">>, <<"<i>", "Bonjour", "</i>", "\n", "monde">> }
UnionOffsets == {0, 300}

\* mergeSubtitles is called directly, by a build that links one of the
\* coalescing variants
InitUnion ==
    /\ variant \in Coalescing
    /\ route = "call"
    /\ srt1 \in {Str(c) : c \in ContentsOf(UnionMasterTimes, UnionMasterTexts)}
    /\ srt2 \in {Str(c) : c \in ContentsOf(UnionSecondaryTimes, UnionSecondaryTexts)}
    /\ offset \in UnionOffsets
    /\ pc = "start"
    /\ merged = NoResult
    /\ response = NoResponse
    /\ codec = NoCodec
    /\ tr = NoTr
    /\ cache = NoCache /\ fetch = NoFetch /\ pick = NoPick /\ openSubtitlesClient = NoClient
    /\ repeat = NoRepeat /\ subtitleStorage = NoStorage /\ rotation = NoRotation

\* a request reaches the serving layer; fetchDualSubtitles resolves to [srt1, srt2]
InitServe ==
    /\ variant \in Variants
    /\ route \in {"handler", "ondemand"}
    /\ srt1 \in {Null} \cup {Str(c) : c \in ContentsOf(MasterTimes, MasterTexts)}
    /\ srt2 \in {Null} \cup {Str(c) : c \in ContentsOf(SecondaryTimes, SecondaryTexts)}
    /\ offset = 0
    /\ pc = "start"
    /\ merged = NoResult
    /\ response = NoResponse
    /\ codec = NoCodec
    /\ tr = NoTr
    /\ cache = NoCache /\ fetch = NoFetch /\ pick = NoPick /\ openSubtitlesClient = NoClient
    /\ repeat = NoRepeat /\ subtitleStorage = NoStorage /\ rotation = NoRotation

\* a direct call of mergeSubtitles(srt1Content, srt2Content, options)
MergeCall ==
    /\ pc = "start" /\ route = "call"
    /\ merged' = mergeSubtitles(variant, srt1.blocks, srt2.blocks, offset)
    /\ pc' = "done"
    /\ UNCHANGED <<variant, route, srt1, srt2, offset, response, codec, tr, cache, fetch, pick,
                 openSubtitlesClient,
                repeat, subtitleStorage, rotation>>

\* builder.defineSubtitlesHandler: [subtitle1, subtitle2] is what
\* fetchDualSubtitles resolved to
SubtitlesHandler ==
    /\ pc = "start" /\ route = "handler"
    /\ IF ~Truthy(srt1) \/ ~Truthy(srt2)
       THEN /\ response' = [status |-> 200, body |-> <<>>, subtitles |-> <<>>]
            /\ merged' = merged
       ELSE LET mergedContent == mergeSubtitles(variant, srt1.blocks, srt2.blocks, 0)
            IN /\ merged' = mergedContent
               /\ response' =
                    IF mergedContent.out = <<>>
                    THEN [status |-> 200, body |-> <<>>, subtitles |-> <<>>]
                    ELSE [status |-> 200, body |-> <<>>,
                          subtitles |-> <<mergedContent.out>>]
    /\ pc' = "done"
    /\ UNCHANGED <<variant, route, srt1, srt2, offset, codec, tr, cache, fetch, pick,
                 openSubtitlesClient,
                repeat, subtitleStorage, rotation>>

\* app.get('/subtitle/:imdbId/:season/:episode/:lang1/:lang2/:videoHash?')
OnDemandEndpoint ==
    /\ pc = "start" /\ route = "ondemand"
    /\ IF ~Truthy(srt1) /\ ~Truthy(srt2)
       THEN /\ response' = [status |-> 404, body |-> <<>>, subtitles |-> <<>>]
            /\ merged' = merged
       ELSE LET validSrt1 == IF Truthy(srt1) THEN srt1.blocks ELSE <<>>
                validSrt2 == IF Truthy(srt2) THEN srt2.blocks ELSE <<>>
                mergedSrt == mergeSubtitles(variant, validSrt1, validSrt2, 0)
            IN /\ merged' = mergedSrt
               /\ response' = [status |-> 200, body |-> mergedSrt.out,
                               subtitles |-> <<>>]
    /\ pc' = "done"
    /\ UNCHANGED <<variant, route, srt1, srt2, offset, codec, tr, cache, fetch, pick,
                 openSubtitlesClient,
                repeat, subtitleStorage, rotation>>

----------------------------------------------------------------------------
(* State machine of the codec: serializeSRT and parseSRT on strings *)

\* start and end times of the cues handed to serializeSRT
CodecTimes == {0, 1500, 3723004}

\* their texts: one line, two lines, two lines with an empty line between
\* them (the text mergeSubtitles builds for a master cue with a secondary text)
CodecTexts == { <<"Hello">>,
                <<"Hello", "\n", "Bonjour">>,
                <<"Hello", "\n", "\n", "<i>", "Bonjour", "</i>">> }

\* the well-formed cue sequences: end > start, non-empty text
WellFormedSeqs ==
    LET cues == {Entry(7, st, en, t, 0, <<>>) :
                    st \in CodecTimes, en \in {e \in CodecTimes : e > 0}, t \in CodecTexts}
        ok == {c \in cues : c.endTime > c.startTime}
    IN UNION {[1..n -> ok] : n \in 0..MaxCues}

Stamp(ms) == millisecondsToTimestamp(ms)

\* the blocks a file is made of, by what they have and what they lack
BlockKinds == {"cue", "cue2", "zero", "negative", "noOrdinal", "badOrdinal",
               "noTimecode", "badTimecode", "noText"}

BlockLines(kind) ==
    CASE kind = "cue" ->
           <<IntLine(1), TimecodeLine(Stamp(0), Stamp(1500)), TextLine(<<"Hello">>)>>
      [] kind = "cue2" ->
           <<IntLine(2), TimecodeLine(Stamp(1500), Stamp(3723004)),
             TextLine(<<"Hello">>), TextLine(<<"Bonjour", "\r">>)>>
      [] kind = "zero" ->
           <<IntLine(3), TimecodeLine(Stamp(1500), Stamp(1500)), TextLine(<<"Hi">>)>>
      [] kind = "negative" ->
           <<IntLine(4), TimecodeLine(Stamp(3723004), Stamp(1500)), TextLine(<<"Hi">>)>>
      [] kind = "noOrdinal" ->
           <<TimecodeLine(Stamp(0), Stamp(1500)), TextLine(<<"Hello">>),
             TextLine(<<"Bonjour">>)>>
      [] kind = "badOrdinal" ->
           <<TextLine(<<"Hi">>), TimecodeLine(Stamp(0), Stamp(1500)),
             TextLine(<<"Hello">>)>>
      [] kind = "noTimecode" ->
           <<IntLine(5), TextLine(<<"Hello">>), TextLine(<<"Bonjour">>)>>
      [] kind = "badTimecode" ->
           <<IntLine(6), TimecodeLine(Stamp(0 - 1500), Stamp(1500)),
             TextLine(<<"Hello">>)>>
      [] kind = "noText" ->
           <<IntLine(7), TimecodeLine(Stamp(0), Stamp(1500))>>

\* the string of a file: its blocks, an empty line after each but the last
RECURSIVE FileOf(_)
FileOf(kinds) ==
    IF kinds = <<>> THEN <<>>
    ELSE IF Len(kinds) = 1 THEN BlockLines(kinds[1])
    ELSE BlockLines(Head(kinds)) \o <<TextLine(<<>>)>> \o FileOf(Tail(kinds))

\* serializeSRT is called on a well-formed sequence (and parseSRT on what it
\* returns), or parseSRT on the string of a file
InitCodec ==
    /\ variant = "strict" /\ route = "codec"
    /\ srt1 = Null /\ srt2 = Null /\ offset = 0
    /\ pc = "done" /\ merged = NoResult /\ response = NoResponse
    /\ tr = NoTr
    /\ cache = NoCache /\ fetch = NoFetch /\ pick = NoPick /\ openSubtitlesClient = NoClient
    /\ repeat = NoRepeat /\ subtitleStorage = NoStorage /\ rotation = NoRotation
    /\ \/ \E seq \in WellFormedSeqs :
             codec = [pc |-> "start", op |-> "roundtrip", seq |-> seq,
                      blocks |-> <<>>, content |-> <<>>, entries |-> <<>>]
       \/ \E kinds \in UNION {[1..n -> BlockKinds] : n \in 0..MaxBlocks} :
             codec = [pc |-> "serialized", op |-> "parse", seq |-> <<>>,
                      blocks |-> kinds, content |-> FileOf(kinds), entries |-> <<>>]

\* serializeSRT(entries)
SerializeCall ==
    /\ codec.pc = "start"
    /\ codec' = [codec EXCEPT !.content = serializeSRTString(codec.seq),
                              !.pc = "serialized"]
    /\ UNCHANGED <<variant, route, srt1, srt2, offset, pc, merged, response, tr, cache, fetch, pick,
                 openSubtitlesClient,
                repeat, subtitleStorage, rotation>>

\* parseSRT(content)
ParseCall ==
    /\ codec.pc = "serialized"
    /\ codec' = [codec EXCEPT !.entries = parseSRTString(codec.content),
                              !.pc = "parsed"]
    /\ UNCHANGED <<variant, route, srt1, srt2, offset, pc, merged, response, tr, cache, fetch, pick,
                 openSubtitlesClient,
                repeat, subtitleStorage, rotation>>

----------------------------------------------------------------------------
(* SubtitleCache, src/src/utils/cache.ts.  cache.map is the Map (a function
   from the keys that are present to [content, timestamp]), cache.now is
   Date.now().  cache.last remembers, for each key, the last set on it;
   cache.op is the last operation and what it returned. *)

Undefined == "undefined"

\* this.ttl = ttlSeconds * 1000, in ticks of the clock
TTL == 2

\* `${imdbId}-${language}`, and `-s${season}e${episode}` when both are defined
getCacheKey(imdbId, language, season, episode) ==
    IF season # Undefined /\ episode # Undefined
    THEN <<imdbId, "-", language, "-s", season, "e", episode>>
    ELSE <<imdbId, "-", language>>

\* a slip: an entry expires one tick early
isExpiredAtTTL(now, entry) == now - entry.timestamp >= TTL

\* now - entry.timestamp > this.ttl
isExpired(now, entry) == now - entry.timestamp > TTL

Without(map, key) == [k \in DOMAIN map \ {key} |-> map[k]]

With(map, key, value) ==
    [k \in DOMAIN map \cup {key} |-> IF k = key THEN value ELSE map[k]]

\* SubtitleCache.get: what it returns ("null" for null)
cacheGetResult(c, key) ==
    IF key \notin DOMAIN c.map THEN "null"
    ELSE IF isExpired(c.now, c.map[key]) THEN "null"
    ELSE c.map[key].content

\* SubtitleCache.get: the cache after it
cacheGet(c, key) ==
    [c EXCEPT !.map = IF key \in DOMAIN c.map /\ isExpired(c.now, c.map[key])
                      THEN Without(c.map, key) ELSE c.map,
              !.op = [name |-> "get", key |-> key, result |-> cacheGetResult(c, key),
                      at |-> c.now]]

\* SubtitleCache.set
cacheSet(c, key, content) ==
    [c EXCEPT !.map = With(c.map, key, [content |-> content, timestamp |-> c.now]),
              !.last = With(c.last, key, [content |-> content, timestamp |-> c.now]),
              !.op = [name |-> "set", key |-> key, result |-> "null", at |-> c.now]]

\* SubtitleCache.cleanExpired
cleanExpired(c) ==
    [c EXCEPT !.map = [k \in {x \in DOMAIN c.map : ~isExpired(c.now, c.map[x])} |-> c.map[k]],
              !.op = [name |-> "cleanExpired", key |-> <<>>,
                      result |-> Cardinality({x \in DOMAIN c.map : isExpired(c.now, c.map[x])}),
                      at |-> c.now]]

CacheLanguages == {"es"}
CacheContents == {"A", "B"}

CacheKeys ==
    {getCacheKey("tt1", language, season, episode) :
        language \in CacheLanguages, season \in {Undefined, "1"}, episode \in {Undefined, "1"}}

OthersUnchanged ==
    UNCHANGED <<variant, route, srt1, srt2, offset, pc, merged, response, codec, tr,
                openSubtitlesClient,
                repeat, subtitleStorage, rotation>>

\* the cache of a process that has just started
InitCache ==
    /\ variant = "strict" /\ route = "cache"
    /\ srt1 = Null /\ srt2 = Null /\ offset = 0
    /\ pc = "done" /\ merged = NoResult /\ response = NoResponse
    /\ codec = NoCodec /\ tr = NoTr
    /\ cache = NoCache /\ fetch = NoFetch /\ pick = NoPick /\ openSubtitlesClient = NoClient
    /\ repeat = NoRepeat /\ subtitleStorage = NoStorage /\ rotation = NoRotation

CacheGet ==
    /\ route = "cache"
    /\ \E key \in CacheKeys : cache' = cacheGet(cache, key)
    /\ OthersUnchanged /\ UNCHANGED <<fetch, pick>>

CacheSet ==
    /\ route = "cache"
    /\ \E key \in CacheKeys : \E content \in CacheContents :
          cache' = cacheSet(cache, key, content)
    /\ OthersUnchanged /\ UNCHANGED <<fetch, pick>>

CleanExpired ==
    /\ route = "cache"
    /\ cache' = cleanExpired(cache)
    /\ OthersUnchanged /\ UNCHANGED <<fetch, pick>>

\* time passes (for the fetch layer: between two requests)
Tick ==
    /\ route = "cache" \/ (route = "fetch" /\ fetch.pc = "done" /\ fetch.request = 1)
    /\ cache.now < MaxNow
    /\ cache' = [cache EXCEPT !.now = cache.now + 1]
    /\ OthersUnchanged /\ UNCHANGED <<fetch, pick>>

----------------------------------------------------------------------------
(* calculateSimilarity, src/src/services/microsoftTranslator.ts:300-346.
   A filename is modelled after normalize(): the set of its words.  No word
   of Words9 is part of another one, so s.includes(tag) is membership.  A
   score is the fraction [num, den]. *)

Words9 == {"movie", "grp", "bluray", "bdrip", "hdtv", "1080p", "720p", "2160p", "4k"}

FileNames == SUBSET Words9

criticalTags ==
    <<"hdtv", "web dl", "webrip", "bluray", "bdrip", "dvdrip", "1080p", "720p", "2160p", "4k">>

\* w.length
WordLength(w) == IF w = "4k" THEN 2 ELSE IF w = "grp" THEN 3 ELSE 5

\* new Set(s.split(' ').filter(w => w.length > 2))
tokenize(s) == {w \in s : WordLength(w) > 2}

Frac(num, den) == [num |-> num, den |-> den]
FracEq(x, y) == x.num * y.den = y.num * x.den
FracLess(x, y) == x.num * y.den < y.num * x.den

\* criticalMismatch after the loop over criticalTags
criticalMismatch(s1, s2) ==
    \E n \in 1..Len(criticalTags) :
        LET tag == criticalTags[n]
        IN /\ (tag \in s1) # (tag \in s2)
           /\ \/ tag = "hdtv" /\ "bluray" \in s2
              \/ tag = "bluray" /\ "hdtv" \in s2

\* criticalMatchCount after the loop
criticalMatchCount(s1, s2) ==
    Cardinality({n \in 1..Len(criticalTags) :
                    criticalTags[n] \in s1 /\ criticalTags[n] \in s2})

\* Math.min(jaccard + count * 0.1, 1.0)
boost(jaccard, count) ==
    IF 10 * jaccard.num + count * jaccard.den >= 10 * jaccard.den THEN Frac(1, 1)
    ELSE Frac(10 * jaccard.num + count * jaccard.den, 10 * jaccard.den)

calculateSimilarity(s1, s2) ==
    LET set1 == tokenize(s1)
        set2 == tokenize(s2)
    IN IF set1 = {} \/ set2 = {} THEN Frac(0, 1)
       ELSE LET jaccard == Frac(Cardinality(set1 \cap set2), Cardinality(set1 \cup set2))
            IN IF criticalMismatch(s1, s2) THEN Frac(jaccard.num, 2 * jaccard.den)
               ELSE IF criticalMatchCount(s1, s2) > 0
                    THEN boost(jaccard, criticalMatchCount(s1, s2))
                    ELSE jaccard

\* calculateSimilarity is called on two filenames, in both orders
InitSimilarity ==
    /\ variant = "strict" /\ route = "similarity"
    /\ srt1 = Null /\ srt2 = Null /\ offset = 0
    /\ pc = "done" /\ merged = NoResult /\ response = NoResponse
    /\ codec = NoCodec /\ tr = NoTr
    /\ cache = NoCache /\ fetch = NoFetch /\ openSubtitlesClient = NoClient
    /\ repeat = NoRepeat /\ subtitleStorage = NoStorage /\ rotation = NoRotation
    /\ \E a \in FileNames : \E b \in FileNames :
          pick = [pc |-> "start", op |-> "similarity", a |-> a, b |-> b,
                  score |-> Frac(0, 1), reverse |-> Frac(0, 1)]

SimilarityCalls ==
    /\ pick.pc = "start" /\ pick.op = "similarity"
    /\ pick' = [pick EXCEPT !.score = calculateSimilarity(pick.a, pick.b),
                            !.reverse = calculateSimilarity(pick.b, pick.a),
                            !.pc = "done"]
    /\ OthersUnchanged /\ UNCHANGED <<cache, fetch>>

----------------------------------------------------------------------------
(* OpenSubtitlesClient.getBestSubtitle, src/src/services/opensubtitles.ts:224-336.
   A candidate is [id, fileName (the set of its words), uploaderRank,
   uploadAge (whole days since the upload, or NoUploadDate), rating, downloads].
   A score is kept as an integer: the score of the code times maxDownloads. *)

Candidate(id, fileName, uploaderRank, uploadAge, rating, downloads) ==
    [id |-> id, fileName |-> fileName, uploaderRank |-> uploaderRank,
     uploadAge |-> uploadAge, rating |-> rating, downloads |-> downloads]

\* sub.uploadDate is missing
NoUploadDate == 0 - 1

\* a slip: a trusted uploader is worth less than the downloads
uploaderPointsSmall(rank) ==
    IF rank \in {"trusted", "sub_translator"} THEN 5 ELSE 0

\* 1. Trusted uploader badge
uploaderPoints(rank) ==
    IF rank = Undefined THEN 0
    ELSE IF rank \in {"trusted", "sub_translator"} THEN 50
    ELSE IF rank \in {"gold star", "bronze star"} THEN 20 ELSE 0

\* 2. Upload recency
recencyPoints(uploadAge) ==
    IF uploadAge = NoUploadDate THEN 0
    ELSE IF uploadAge < 30 THEN 30 - uploadAge
    ELSE IF uploadAge < 90 THEN 15 ELSE 0

\* 3. Rating
ratingPoints(rating) == IF rating > 0 THEN rating * 4 ELSE 0

\* 4. Release info richness; only one release type counts, and none with BluRay
releasePoints(fileName) ==
    LET bluray == IF {"bluray", "bdrip"} \cap fileName # {} THEN 30 ELSE 0
        resolution == IF {"1080p", "720p", "2160p", "4k"} \cap fileName # {} THEN 3 ELSE 0
        releaseScore == bluray + resolution
    IN IF releaseScore < 30 /\ "hdtv" \in fileName THEN releaseScore - 10
       ELSE releaseScore

\* Math.max(...subtitles.map(s => s.downloads || 0)), of a list that is not empty
maxDownloads(subtitles) ==
    LET counts == {subtitles[n].downloads : n \in 1..Len(subtitles)}
    IN CHOOSE most \in counts : \A d \in counts : d <= most

\* score * maxDownloads (score itself when maxDownloads is 0)
scoreOf(sub, most) ==
    LET points == uploaderPoints(sub.uploaderRank) + recencyPoints(sub.uploadAge)
                    + ratingPoints(sub.rating) + releasePoints(sub.fileName)
    IN IF most > 0 THEN points * most + sub.downloads * 10 ELSE points

\* scored.sort((a, b) => b.score - a.score)[0]: the first of the highest,
\* as a position of the list (0: null)
getBestSubtitle(subtitles) ==
    IF Len(subtitles) = 0 THEN 0
    ELSE LET most == maxDownloads(subtitles)
             scored(n) == scoreOf(subtitles[n], most)
         IN CHOOSE n \in 1..Len(subtitles) :
               /\ \A k \in 1..Len(subtitles) : scored(k) <= scored(n)
               /\ \A k \in 1..(n - 1) : scored(k) < scored(n)

Ranks == {Undefined, "trusted", "sub_translator", "gold star"}
Ages == {NoUploadDate, 0, 20, 45}
DownloadCounts == {0, 1, 1000}

Candidates ==
    {Candidate("f", fileName, rank, age, 4, downloads) :
        fileName \in {{"movie"}, {"movie", "hdtv", "720p"}},
        rank \in Ranks, age \in Ages, downloads \in DownloadCounts}

\* getBestSubtitle is called on a list of candidates
InitBest ==
    /\ variant = "strict" /\ route = "best"
    /\ srt1 = Null /\ srt2 = Null /\ offset = 0
    /\ pc = "done" /\ merged = NoResult /\ response = NoResponse
    /\ codec = NoCodec /\ tr = NoTr
    /\ cache = NoCache /\ fetch = NoFetch /\ openSubtitlesClient = NoClient
    /\ repeat = NoRepeat /\ subtitleStorage = NoStorage /\ rotation = NoRotation
    /\ \E n \in 0..MaxCandidates : \E subtitles \in [1..n -> Candidates] :
          pick = [pc |-> "start", op |-> "best", subtitles |-> subtitles, best |-> 0]

BestCall ==
    /\ pick.pc = "start" /\ pick.op = "best"
    /\ pick' = [pick EXCEPT !.best = getBestSubtitle(pick.subtitles), !.pc = "done"]
    /\ OthersUnchanged /\ UNCHANGED <<cache, fetch>>

----------------------------------------------------------------------------
(* The fetch layer.  fetchSubtitle is the same in src/unnamed/part_007,
   part_008 and src/src/services/microsoftTranslator.ts:243-290;
   fetchDualSubtitles exists as
     "smart"   src/src/services/microsoftTranslator.ts:351-425 (best pair of
               the first 10 candidates of each language, downloaded by id)
     "cached"  src/unnamed/part_007:65-81 (two calls of fetchSubtitle).
   fetch.lists[lang] is what the provider has for the title in that language,
   a candidate's id is <<lang, position>> and the provider's file for an id
   is FileContent(id).  searchSubtitles returns the list or [], and
   downloadSubtitle the content or '', as the provider and the network
   decide.  fetch.downloads are the calls of downloadSubtitle of the running
   request. *)

TOP == 10

\* the empty string
Empty == ""

FileContent(id) == ToString(id)

\* without a season and an episode (a movie)
KeyOf(lang) == getCacheKey("tt1", lang, Undefined, Undefined)

\* results.slice(0, 10)
Slice(results, n) == [k \in 1..Min(n, Len(results)) |-> results[k]]

\* a slip: a pair as good as the best one replaces it
isBetterOrEqual(score, best) == ~FracLess(score, best)

\* score > bestPair.score
isBetter(score, best) == FracLess(best, score)

\* for (const sub2 of candidates2), from candidates2[j] on
RECURSIVE innerLoop(_, _, _, _, _)
innerLoop(candidates1, candidates2, i, j, bestPair) ==
    IF j > Len(candidates2) THEN bestPair
    ELSE LET score == calculateSimilarity(candidates1[i].fileName,
                                          candidates2[j].fileName)
         IN IF isBetter(score, bestPair.score)
            THEN innerLoop(candidates1, candidates2, i, j + 1,
                           [sub1 |-> i, sub2 |-> j, score |-> score])
            ELSE innerLoop(candidates1, candidates2, i, j + 1, bestPair)

\* for (const sub1 of candidates1), from candidates1[i] on
RECURSIVE bestPairLoop(_, _, _, _)
bestPairLoop(candidates1, candidates2, i, bestPair) ==
    IF i > Len(candidates1) THEN bestPair
    ELSE LET after == innerLoop(candidates1, candidates2, i, 1, bestPair)
         IN IF after.sub1 = i
            THEN bestPairLoop(candidates1, candidates2, i + 1,
                              [sub1 |-> i, sub2 |-> after.sub2, score |-> after.score])
            ELSE bestPairLoop(candidates1, candidates2, i + 1, bestPair)

\* bestPair after the loops, as positions in the two lists
bestPairOf(results1, results2) ==
    bestPairLoop(Slice(results1, TOP), Slice(results2, TOP), 1,
                 [sub1 |-> 1, sub2 |-> 1, score |-> Frac(0 - 1, 1)])

\* a slip: whatever was downloaded is cached
shouldCacheAlways(content) == TRUE

\* if (content)
shouldCache(content) == content # Empty

\* getContent of the smart variant: the cache is read and not used, the file
\* is downloaded by id and cached when it is not empty
getContent(c, lang, content) ==
    LET read == cacheGet(c, KeyOf(lang))
    IN IF shouldCache(content) THEN cacheSet(read, KeyOf(lang), content) ELSE read

\* the ids of a list of candidates
IdsOf(results) == {results[k].id : k \in 1..Len(results)}

\* fetchSubtitle: [cache after it, content or "null", ids downloaded];
\* downloadSubtitle[id] is what the provider's client returns for the file
fetchSubtitle(c, lang, results, downloadSubtitle) ==
    LET cached == cacheGetResult(c, KeyOf(lang))
        read == cacheGet(c, KeyOf(lang))
    IN IF cached # "null" /\ cached # Empty
       THEN [cache |-> read, content |-> cached, downloads |-> <<>>]
       ELSE IF Len(results) = 0
       THEN [cache |-> read, content |-> "null", downloads |-> <<>>]
       ELSE LET best == results[getBestSubtitle(results)]
                content == downloadSubtitle[best.id]
            IN IF content # Empty
               THEN [cache |-> cacheSet(read, KeyOf(lang), content),
                     content |-> content, downloads |-> <<best.id>>]
               ELSE [cache |-> read, content |-> "null", downloads |-> <<best.id>>]

\* the names of the provider's files
NameA == {"movie", "bluray", "1080p"}
NameB == {"movie", "hdtv"}
NameC == {"other"}

ListOfNames(lang, names) ==
    [k \in 1..Len(names) |-> Candidate(<<lang, k>>, names[k], Undefined, NoUploadDate, 0, 0)]

\* k - 1 files that match nothing, then one file
LongNames(k, name) == [n \in 1..k |-> IF n = k THEN name ELSE NameC]

NameLists ==
    {<<>>, <<NameA>>, <<NameA, NameA>>, <<NameB, NameA>>,
     LongNames(TOP, NameA), LongNames(TOP + 1, NameA)}

\* fetchDualSubtitles(imdbId, type, "es", "en") is called for the first time
InitDual(impls) ==
    /\ variant = "strict" /\ route = "fetch"
    /\ srt1 = Null /\ srt2 = Null /\ offset = 0
    /\ pc = "done" /\ merged = NoResult /\ response = NoResponse
    /\ codec = NoCodec /\ tr = NoTr /\ pick = NoPick /\ openSubtitlesClient = NoClient
    /\ repeat = NoRepeat /\ subtitleStorage = NoStorage /\ rotation = NoRotation
    /\ cache = NoCache
    /\ \E impl \in impls : \E names1 \in NameLists : \E names2 \in NameLists :
          fetch = [pc |-> "start", op |-> "dual", impl |-> impl,
                   lists |-> [es |-> ListOfNames("es", names1),
                              en |-> ListOfNames("en", names2)],
                   request |-> 1, mapAtStart |-> <<>>,
                   results |-> [es |-> <<>>, en |-> <<>>],
                   bestPair |-> [sub1 |-> 0, sub2 |-> 0, score |-> Frac(0, 1)],
                   downloads |-> <<>>, got |-> [es |-> "none", en |-> "none"],
                   returned |-> <<"none", "none">>,
                   first |-> [returned |-> <<"none", "none">>, at |-> 0]]

\* smart: the two searches have answered; [null, null] or the best pair
DualSearch ==
    /\ route = "fetch" /\ fetch.op = "dual" /\ fetch.impl = "smart" /\ fetch.pc = "start"
    /\ \E found1 \in BOOLEAN : \E found2 \in BOOLEAN :
          LET results1 == IF found1 THEN fetch.lists.es ELSE <<>>
              results2 == IF found2 THEN fetch.lists.en ELSE <<>>
          IN fetch' =
               IF Len(results1) = 0 \/ Len(results2) = 0
               THEN [fetch EXCEPT !.results = [es |-> results1, en |-> results2],
                                  !.returned = <<"null", "null">>, !.pc = "done"]
               ELSE [fetch EXCEPT !.results = [es |-> results1, en |-> results2],
                                  !.bestPair = bestPairOf(results1, results2),
                                  !.pc = "download"]
    /\ UNCHANGED cache
    /\ OthersUnchanged /\ UNCHANGED pick

\* smart: the two getContent calls have answered
DualDownload ==
    /\ route = "fetch" /\ fetch.op = "dual" /\ fetch.impl = "smart" /\ fetch.pc = "download"
    /\ \E ok1 \in BOOLEAN : \E ok2 \in BOOLEAN :
          LET id1 == fetch.results.es[fetch.bestPair.sub1].id
              id2 == fetch.results.en[fetch.bestPair.sub2].id
              content1 == IF ok1 THEN FileContent(id1) ELSE Empty
              content2 == IF ok2 THEN FileContent(id2) ELSE Empty
          IN /\ cache' = getContent(getContent(cache, "es", content1), "en", content2)
             /\ fetch' = [fetch EXCEPT !.downloads = <<id1, id2>>,
                                       !.got = [es |-> content1, en |-> content2],
                                       !.returned = <<content1, content2>>,
                                       !.pc = "done"]
    /\ OthersUnchanged /\ UNCHANGED pick

\* cached: the two calls of fetchSubtitle have answered
CachedDual ==
    /\ route = "fetch" /\ fetch.op = "dual" /\ fetch.impl = "cached" /\ fetch.pc = "start"
    /\ \E found1 \in BOOLEAN : \E found2 \in BOOLEAN :
       \E ok1 \in BOOLEAN : \E ok2 \in BOOLEAN :
          LET results1 == IF found1 THEN fetch.lists.es ELSE <<>>
              results2 == IF found2 THEN fetch.lists.en ELSE <<>>
              download1 == [id \in IdsOf(results1) |->
                               IF ok1 THEN FileContent(id) ELSE Empty]
              download2 == [id \in IdsOf(results2) |->
                               IF ok2 THEN FileContent(id) ELSE Empty]
              one == fetchSubtitle(cache, "es", results1, download1)
              two == fetchSubtitle(one.cache, "en", results2, download2)
          IN /\ cache' = two.cache
             /\ fetch' = [fetch EXCEPT !.results = [es |-> results1, en |-> results2],
                                       !.downloads = one.downloads \o two.downloads,
                                       !.got = [es |-> one.content, en |-> two.content],
                                       !.returned = <<one.content, two.content>>,
                                       !.pc = "done"]
    /\ OthersUnchanged /\ UNCHANGED pick

\* the same request again
RepeatRequest ==
    /\ route = "fetch" /\ fetch.op = "dual" /\ fetch.pc = "done" /\ fetch.request = 1
    /\ fetch' = [fetch EXCEPT !.request = 2, !.pc = "start",
                              !.mapAtStart = cache.map,
                              !.first = [returned |-> fetch.returned, at |-> cache.now],
                              !.results = [es |-> <<>>, en |-> <<>>],
                              !.bestPair = [sub1 |-> 0, sub2 |-> 0, score |-> Frac(0, 1)],
                              !.downloads = <<>>,
                              !.got = [es |-> "none", en |-> "none"],
                              !.returned = <<"none", "none">>]
    /\ UNCHANGED cache
    /\ OthersUnchanged /\ UNCHANGED pick

----------------------------------------------------------------------------
(* fetchAndTranslateSubtitle, src/unnamed/part_008:173-266, for the source
   language "es" and the target language "en".  fetch.source is the file the
   provider has for the source language, as its lines, and fetch.generated
   are the translated files built so far; a content is the string
   Content(lines), and LinesOf gives its lines back.
   translateBatch is
     "array"   src/unnamed/part_012:49-108: a string per line, the line
               itself when it is blank or when its chunk failed
     "object"  src/src/services/translator.ts:53-164: { translated,
               errorCount }, so that translatedTexts[index] is undefined
   and fetch.bad are the lines the translation provider fails on. *)

\* `${targetLang}_from_${sourceLang}`
cacheLangKey(targetLang, sourceLang) ==
    IF targetLang = "en" /\ sourceLang = "es" THEN "en_from_es" ELSE "es_from_en"

\* t.replace(/<[^>]*>/g, '').replace(/\{[^}]*\}/g, '').trim()
cleanForTranslation(t) == Trim(StripTags(t))

\* what the translation provider makes of a line
Translation(text) == <<"Bonjour">>

\* translateBatch of part_012:49-108 (one chunk: BATCH_SIZE is 10)
translateBatchArray(texts, bad) ==
    LET asked == {k \in 1..Len(texts) : Trim(texts[k]) # <<>>}
    IN IF asked \cap bad # {} THEN texts
       ELSE [k \in 1..Len(texts) |->
                IF k \in asked THEN Translation(texts[k]) ELSE texts[k]]

\* translatedTexts[index] || ''
translatedTextAt(shape, translatedTexts, index) ==
    IF shape = "object" THEN <<>> ELSE translatedTexts[index]

\* the texts of the cues of the provider's file: plain, in tags, a tag alone
SourceTexts == {<<"Hello">>, <<"<i>", "Hello", "</i>">>, <<"{an8}">>}

FileOfTexts(texts) ==
    serializeSRTString([k \in 1..Len(texts) |->
                           Entry(k, (k - 1) * 1500, k * 1500, texts[k], 0, <<>>)])

\* the provider's files: 1 to MaxCues cues, or a block without a text
SourceFiles ==
    {FileOfTexts(texts) : texts \in UNION {[1..m -> SourceTexts] : m \in 1..MaxCues}}
        \cup {FileOf(<<"noText">>)}

TranslatedKey == KeyOf(cacheLangKey("en", "es"))

\* the string of a file
Content(lines) == ToString(lines)

\* the lines of a string that was downloaded or built
LinesOf(f, content) ==
    CHOOSE lines \in {f.source} \cup f.generated : Content(lines) = content

\* fetchAndTranslateSubtitle(imdbId, type, "es", "en") is called for the
\* first time
InitFetchTranslate ==
    /\ variant = "strict" /\ route = "fetch"
    /\ srt1 = Null /\ srt2 = Null /\ offset = 0
    /\ pc = "done" /\ merged = NoResult /\ response = NoResponse
    /\ codec = NoCodec /\ tr = NoTr /\ pick = NoPick /\ openSubtitlesClient = NoClient
    /\ repeat = NoRepeat /\ subtitleStorage = NoStorage /\ rotation = NoRotation
    /\ cache = NoCache
    /\ \E source \in SourceFiles : \E shape \in {"array", "object"} :
       \E bad \in SUBSET (1..MaxCues) :
          fetch = [pc |-> "start", op |-> "translate", source |-> source,
                   shape |-> shape, bad |-> bad, generated |-> {}, request |-> 1,
                   sourceSrt |-> "null", entries |-> <<>>, hit |-> FALSE,
                   downloads |-> <<>>, returned |-> <<"none", "none">>,
                   first |-> [returned |-> <<"none", "none">>, at |-> 0]]

\* from the entry to the await of translateBatch, or to a return before it
TranslateFetch ==
    /\ route = "fetch" /\ fetch.op = "translate" /\ fetch.pc = "start"
    /\ \E found \in BOOLEAN : \E ok \in BOOLEAN :
          LET results == IF found THEN ListOfNames("es", <<NameA>>) ELSE <<>>
              downloadSubtitle == [id \in IdsOf(results) |->
                                      IF ok THEN Content(fetch.source) ELSE Empty]
              cachedTranslated == cacheGetResult(cache, TranslatedKey)
              hit == cachedTranslated # "null"
              c0 == cacheGet(cache, TranslatedKey)
              one == fetchSubtitle(c0, "es", results, downloadSubtitle)
              \* line 209: the second call when the first one was skipped or
              \* returned null
              two == IF hit THEN fetchSubtitle(one.cache, "es", results, downloadSubtitle)
                     ELSE one
              downloads == IF hit THEN one.downloads \o two.downloads ELSE one.downloads
              entries == IF two.content = "null" THEN <<>>
                         ELSE parseSRTString(LinesOf(fetch, two.content))
          IN IF hit /\ one.content # "null"
             THEN /\ cache' = one.cache
                  /\ fetch' = [fetch EXCEPT !.hit = TRUE, !.downloads = one.downloads,
                                            !.sourceSrt = one.content,
                                            !.returned = <<one.content, cachedTranslated>>,
                                            !.pc = "done"]
             ELSE /\ cache' = two.cache
                  /\ fetch' =
                       IF two.content = "null"
                       THEN [fetch EXCEPT !.downloads = downloads,
                                          !.returned = <<"null", "null">>, !.pc = "done"]
                       ELSE IF Len(entries) = 0
                       THEN [fetch EXCEPT !.downloads = downloads,
                                          !.sourceSrt = two.content,
                                          !.returned = <<two.content, "null">>,
                                          !.pc = "done"]
                       ELSE [fetch EXCEPT !.downloads = downloads,
                                          !.sourceSrt = two.content,
                                          !.entries = entries,
                                          !.pc = "translating"]
    /\ OthersUnchanged /\ UNCHANGED pick

\* translateBatch has answered or thrown: the translated file is built, cached
\* and returned, or [sourceSrt, null]
TranslateBatchDone ==
    /\ route = "fetch" /\ fetch.op = "translate" /\ fetch.pc = "translating"
    /\ \E throws \in BOOLEAN :
          LET entries == fetch.entries
              textsToTranslate == [k \in 1..Len(entries) |->
                                      cleanForTranslation(entries[k].text)]
              translatedTexts == translateBatchArray(textsToTranslate, fetch.bad)
              translatedEntries ==
                  [index \in 1..Len(entries) |->
                      [entries[index] EXCEPT
                          !.text = translatedTextAt(fetch.shape, translatedTexts, index)]]
              translatedLines == serializeSRTString(translatedEntries)
              translatedSrt == Content(translatedLines)
          IN IF throws
             THEN /\ fetch' = [fetch EXCEPT !.returned = <<fetch.sourceSrt, "null">>,
                                            !.pc = "done"]
                  /\ UNCHANGED cache
             ELSE /\ fetch' = [fetch EXCEPT !.returned = <<fetch.sourceSrt, translatedSrt>>,
                                            !.generated = @ \cup {translatedLines},
                                            !.pc = "done"]
                  /\ cache' = cacheSet(cache, TranslatedKey, translatedSrt)
    /\ OthersUnchanged /\ UNCHANGED pick

\* the same request again
TranslateAgain ==
    /\ route = "fetch" /\ fetch.op = "translate" /\ fetch.pc = "done" /\ fetch.request = 1
    /\ fetch' = [fetch EXCEPT !.request = 2, !.pc = "start",
                              !.first = [returned |-> fetch.returned, at |-> cache.now],
                              !.sourceSrt = "null", !.entries = <<>>, !.hit = FALSE,
                              !.downloads = <<>>,
                              !.returned = <<"none", "none">>]
    /\ UNCHANGED cache
    /\ OthersUnchanged /\ UNCHANGED pick

----------------------------------------------------------------------------
(* The provider client, src/src/services/opensubtitles.ts:10-213.  A call of
   searchSubtitles or downloadSubtitle runs executeWithRotation, which runs
   the operation with the key in use; every run of the operation is one
   request to the provider and one step here.  What the provider and the
   network do with a request is an Outcome:
     [kind |-> "value", value |-> v]     the operation returned v
     [kind |-> "error", error |-> e]     the operation threw e
   with e = [axios |-> it is an AxiosError, status |-> error.response.status
   or NoStatus, quota |-> error.response.data.message includes 'quota',
   what |-> the situation it stands for].
   openSubtitlesClient.result is what the call returned to its caller,
   .threw whether it threw instead, and .cause the situation behind the last
   request, kept for the properties. *)

MaxKeys == 2

MaxCalls == 2

NoStatus == 0

Operations == {"search", "download"}

\* result || []  and  result || ''
EmptyOf(op) == IF op = "search" THEN <<>> ELSE ""

AxiosError(status, quota, what) ==
    [axios |-> TRUE, status |-> status, quota |-> quota, what |-> what]

\* an error that is no AxiosError: new Error('No download link received')
PlainError(what) == [axios |-> FALSE, status |-> NoStatus, quota |-> FALSE, what |-> what]

Value(v, what) == [kind |-> "value", value |-> v, what |-> what]

Thrown(e) == [kind |-> "error", error |-> e, what |-> e.what]

Failures ==
    {AxiosError(429, FALSE, "quota"), AxiosError(402, FALSE, "quota"),
     AxiosError(403, TRUE, "quota"), AxiosError(403, FALSE, "auth"),
     AxiosError(401, FALSE, "auth"), AxiosError(503, FALSE, "server"),
     AxiosError(NoStatus, FALSE, "transport")}

\* what one request can come to
Outcomes(op) ==
    IF op = "search"
    THEN {Value(<<"file">>, "found"), Value(<<>>, "not found")}
            \cup {Thrown(e) : e \in Failures}
    ELSE {Value("content", "found"), Thrown(PlainError("not found"))}
            \cup {Thrown(e) : e \in Failures}

\* isRetryableError, opensubtitles.ts:54-67
isRetryableError(error) ==
    /\ error.axios /\ error.status # NoStatus
    /\ \/ error.status = 429
       \/ error.status = 402
       \/ (error.status = 403 /\ error.quota)
       \/ (error.status >= 500 /\ error.status < 600)

\* the catch of searchSubtitles and of downloadSubtitle returns [] or ''
swallow(op) == TRUE

\* the call returns v: result || [] , result || ''
Answered(c, v, what) ==
    [c EXCEPT !.pc = "done", !.threw = FALSE, !.cause = what,
              !.result = IF v = "null" THEN EmptyOf(c.op) ELSE v]

\* executeWithRotation rethrows e: the catch of the caller decides
Rethrown(c, e) ==
    IF swallow(c.op)
    THEN [c EXCEPT !.pc = "done", !.threw = FALSE, !.cause = e.what,
                   !.result = EmptyOf(c.op)]
    ELSE [c EXCEPT !.pc = "done", !.threw = TRUE, !.cause = e.what]

\* executeWithRotation from its first line, with the outcome of the request
\* it makes if it makes one
executeWithRotation(c, outcome) ==
    IF c.keys = 0 THEN Answered(c, "null", "no key")
    ELSE IF c.retryCount >= c.keys THEN Answered(c, "null", c.cause)
    ELSE LET tried == [c EXCEPT !.requests = @ + 1, !.cause = outcome.what]
         IN IF outcome.kind = "value" THEN Answered(tried, outcome.value, outcome.what)
            ELSE IF isRetryableError(outcome.error)
            THEN [tried EXCEPT !.currentKeyIndex = (@ + 1) % c.keys,
                               !.retryCount = @ + 1,
                               !.pc = "retry"]
            ELSE Rethrown(tried, outcome.error)

\* new OpenSubtitlesClient() with 0 to MaxKeys keys, and its first call
InitClient ==
    /\ variant = "strict" /\ route = "client"
    /\ srt1 = Null /\ srt2 = Null /\ offset = 0
    /\ pc = "done" /\ merged = NoResult /\ response = NoResponse
    /\ codec = NoCodec /\ tr = NoTr /\ pick = NoPick
    /\ cache = NoCache /\ fetch = NoFetch
    /\ repeat = NoRepeat /\ subtitleStorage = NoStorage /\ rotation = NoRotation
    /\ \E keys \in 0..MaxKeys : \E op \in Operations :
          openSubtitlesClient = [pc |-> "start", op |-> op, keys |-> keys, currentKeyIndex |-> 0,
                    retryCount |-> 0, requests |-> 0, calls |-> 1,
                    result |-> EmptyOf(op), threw |-> FALSE, cause |-> "none"]

ClientUnchanged ==
    UNCHANGED <<variant, route, srt1, srt2, offset, pc, merged, response, codec, tr,
                cache, fetch, pick, repeat, subtitleStorage, rotation>>

\* the call enters executeWithRotation and its request is answered
ClientRequest ==
    /\ route = "client" /\ openSubtitlesClient.pc = "start"
    /\ \E outcome \in Outcomes(openSubtitlesClient.op) :
          openSubtitlesClient' = executeWithRotation(openSubtitlesClient, outcome)
    /\ ClientUnchanged

\* executeWithRotation(operationName, operation, retryCount + 1)
ClientRetry ==
    /\ route = "client" /\ openSubtitlesClient.pc = "retry"
    /\ \E outcome \in Outcomes(openSubtitlesClient.op) :
          openSubtitlesClient' = executeWithRotation(openSubtitlesClient, outcome)
    /\ ClientUnchanged

\* the next call on the same client: the key in use stays
ClientNextCall ==
    /\ route = "client" /\ openSubtitlesClient.pc = "done"
    /\ openSubtitlesClient.calls < MaxCalls
    /\ \E op \in Operations :
          openSubtitlesClient' =
              [openSubtitlesClient EXCEPT !.pc = "start", !.op = op, !.retryCount = 0,
                                          !.requests = 0, !.calls = @ + 1,
                                          !.result = EmptyOf(op), !.threw = FALSE,
                                          !.cause = "none"]
    /\ ClientUnchanged

----------------------------------------------------------------------------
(* LibreTranslateClient.translateBatch called on its own, every request free
   to fail on its own (a timeout, a refused connection):
     "smart"     src/unnamed/part_014:71-131 (lines joined by a separator)
     "parallel"  src/src/services/libretranslate-client.ts:165-205
   tr.pushed is the client's `results`; tr.results what TranslatorService
   makes of it (translator.ts:58-77). *)

\* lines joined into one request; 10 in the source, 2 here so that a list of
\* MaxLines lines is cut into several batches
BATCH_SIZE == 2

\* requests sent together; 6 in the source
CONCURRENT_REQUESTS == 2

LibreClients == {"smart", "parallel"}

\* what translate(text) returns for the line k when its request succeeds
lineResult(texts, k) ==
    Res(k, IF IsBlankText(texts[k]) THEN "original" ELSE "translated")

\* for (const text of chunk) { try { push(await translate(text)) }
\*                            catch { push(text) } }: the requests of the lines
\* in fail throw
RECURSIVE lineByLineCaught(_, _, _, _)
lineByLineCaught(texts, k, last, fail) ==
    IF k > last THEN <<>>
    ELSE <<IF k \in fail THEN Res(k, "original") ELSE lineResult(texts, k)>>
            \o lineByLineCaught(texts, k + 1, last, fail)

\* for (const text of chunk) { push(await translate(text)) } inside the try:
\* what is pushed before the first request that throws
RECURSIVE lineByLineUncaught(_, _, _, _)
lineByLineUncaught(texts, k, last, fail) ==
    IF k > last \/ k \in fail THEN <<>>
    ELSE <<lineResult(texts, k)>> \o lineByLineUncaught(texts, k + 1, last, fail)

\* the lines of a chunk whose request can fail: translate returns a blank
\* text without a request
CanFail(texts, first, last) == {k \in first..last : ~IsBlankText(texts[k])}

\* one turn of the loop of the smart client: what it pushes.  batch is how
\* the joined request ended, fail1 the lines failing inside the try, fail2 the
\* lines failing inside the catch
smartChunk(texts, first, last, batch, fail1, fail2) ==
    CASE batch = "split" -> [idx \in 1..(last - first + 1) |-> Res(first + idx - 1, "translated")]
      [] batch = "mismatch" ->
            IF fail1 = {} THEN lineByLineUncaught(texts, first, last, fail1)
            ELSE lineByLineUncaught(texts, first, last, fail1)
                    \o lineByLineCaught(texts, first, last, fail2)
      [] batch = "throws" -> lineByLineCaught(texts, first, last, fail2)

\* one turn of the loop of the parallel client: Promise.all, then the catch
parallelChunk(texts, first, last, fail1, fail2) ==
    IF fail1 = {} THEN [idx \in 1..(last - first + 1) |-> lineResult(texts, first + idx - 1)]
    ELSE lineByLineCaught(texts, first, last, fail2)

\* translated.forEach((result, i) => { results[i] = result }) on
\* results = new Array(texts.length)
forEachResult(n, translated) ==
    [k \in 1..(IF Len(translated) > n THEN Len(translated) ELSE n) |->
        IF k <= Len(translated) THEN translated[k] ELSE Res(0, "undefined")]

InitLibre ==
    /\ variant = "strict" /\ route = "libre"
    /\ srt1 = Null /\ srt2 = Null /\ offset = 0
    /\ pc = "done" /\ merged = NoResult /\ response = NoResponse
    /\ codec = NoCodec
    /\ cache = NoCache /\ fetch = NoFetch /\ pick = NoPick /\ openSubtitlesClient = NoClient
    /\ repeat = NoRepeat /\ subtitleStorage = NoStorage /\ rotation = NoRotation
    /\ \E n \in 0..MaxLines : \E texts \in [1..n -> {"Hello", " "}] :
       \E client \in LibreClients :
          tr = [pc |-> "client", libre |-> client, texts |-> texts, i |-> 1,
                pushed |-> <<>>, results |-> <<>>, mismatches |-> 0, caught |-> 0]

\* one turn of the for loop of the client
LibreChunk ==
    /\ route = "libre" /\ tr.pc = "client" /\ tr.i <= Len(tr.texts)
    /\ LET size == IF tr.libre = "smart" THEN BATCH_SIZE ELSE CONCURRENT_REQUESTS
           last == Min(tr.i + size - 1, Len(tr.texts))
           canFail == CanFail(tr.texts, tr.i, last)
       IN \E fail1 \in SUBSET canFail : \E fail2 \in SUBSET canFail :
          \E batch \in {"split", "mismatch", "throws"} :
             /\ tr.libre = "parallel" => batch = "split"
             /\ batch = "mismatch" => last > tr.i
             /\ batch = "throws" => (last > tr.i \/ canFail # {})
             /\ (tr.libre = "smart" /\ batch # "mismatch") => fail1 = {}
             /\ (tr.libre = "smart" /\ batch = "split") => fail2 = {}
             /\ (batch # "throws" /\ fail1 = {}) => fail2 = {}
             /\ tr' = [tr EXCEPT
                         !.pushed = @ \o (IF tr.libre = "smart"
                                          THEN smartChunk(tr.texts, tr.i, last, batch,
                                                          fail1, fail2)
                                          ELSE parallelChunk(tr.texts, tr.i, last,
                                                             fail1, fail2)),
                         !.mismatches = @ + (IF batch = "mismatch" THEN 1 ELSE 0),
                         !.caught = @ + (IF batch = "throws" \/ fail1 # {} THEN 1 ELSE 0),
                         !.i = @ + size]
    /\ TrUnchanged

\* return results; TranslatorService copies them
LibreReturn ==
    /\ route = "libre" /\ tr.pc = "client" /\ tr.i > Len(tr.texts)
    /\ tr' = [tr EXCEPT !.pc = "returned",
                        !.results = forEachResult(Len(tr.texts), tr.pushed)]
    /\ TrUnchanged

----------------------------------------------------------------------------
(* subtitleStorage, src/src/utils/storage.ts.  Date.now() is the clock
   subtitleStorage.now; two calls made before the clock moves are calls within
   the same millisecond.  subtitleStorage.stores lists the store calls made:
   the id each returned, its content and the time, kept for the properties. *)

\* longest run of store calls
MaxStores == 3

\* private ttl = 3600000, in ticks of the clock
STORAGE_TTL == 2

\* `${imdbId}-${lang1}-${lang2}-${Date.now()}`
storageId(imdbId, lang1, lang2, now) == <<imdbId, "-", lang1, "-", lang2, "-", now>>

\* SubtitleStorage.cleanExpired
storageCleanExpired(st) ==
    [st EXCEPT !.storage =
        [id \in {x \in DOMAIN st.storage :
                    ~(st.now - st.storage[x].timestamp > STORAGE_TTL)} |-> st.storage[id]]]

\* SubtitleStorage.store: the storage after it; the id is that of its last store
storageStore(st, content, imdbId, lang1, lang2) ==
    LET id == storageId(imdbId, lang1, lang2, st.now)
        set == [st EXCEPT !.storage = With(st.storage, id,
                                           [content |-> content, timestamp |-> st.now,
                                            id |-> id])]
    IN [storageCleanExpired(set) EXCEPT
            !.stores = Append(@, [id |-> id, content |-> content, at |-> st.now])]

\* SubtitleStorage.get: what it returns ("null" for null)
storageGetResult(st, id) ==
    IF id \notin DOMAIN st.storage THEN "null"
    ELSE IF st.now - st.storage[id].timestamp > STORAGE_TTL THEN "null"
    ELSE st.storage[id].content

\* SubtitleStorage.get: the storage after it
storageGet(st, id) ==
    [st EXCEPT !.storage = IF id \in DOMAIN st.storage
                                /\ st.now - st.storage[id].timestamp > STORAGE_TTL
                             THEN Without(st.storage, id) ELSE st.storage,
               !.last = [id |-> id, result |-> storageGetResult(st, id)]]

StorageTitles == {"tt1", "tt2"}
StorageContents == {"A", "B"}

\* new SubtitleStorage()
InitStorage ==
    /\ variant = "strict" /\ route = "storage"
    /\ srt1 = Null /\ srt2 = Null /\ offset = 0
    /\ pc = "done" /\ merged = NoResult /\ response = NoResponse
    /\ codec = NoCodec /\ tr = NoTr /\ pick = NoPick
    /\ cache = NoCache /\ fetch = NoFetch /\ openSubtitlesClient = NoClient
    /\ repeat = NoRepeat /\ rotation = NoRotation
    /\ subtitleStorage = [storage |-> <<>>, now |-> 0, stores |-> <<>>,
                          last |-> [id |-> <<>>, result |-> "null"]]

StorageUnchanged ==
    UNCHANGED <<variant, route, srt1, srt2, offset, pc, merged, response, codec, tr,
                cache, fetch, pick, openSubtitlesClient, repeat, rotation>>

\* the subtitles handler stores a merged content
StorageStore ==
    /\ route = "storage"
    /\ Len(subtitleStorage.stores) < MaxStores
    /\ \E imdbId \in StorageTitles : \E content \in StorageContents :
          subtitleStorage' = storageStore(subtitleStorage, content, imdbId, "en", "es")
    /\ StorageUnchanged

\* the /subtitle/:id endpoint asks for an id that a store call returned
StorageGet ==
    /\ route = "storage"
    /\ \E k \in 1..Len(subtitleStorage.stores) :
          subtitleStorage' = storageGet(subtitleStorage, subtitleStorage.stores[k].id)
    /\ StorageUnchanged

\* time passes
StorageTick ==
    /\ route = "storage"
    /\ subtitleStorage.now < MaxNow
    /\ subtitleStorage' = [subtitleStorage EXCEPT !.now = @ + 1]
    /\ StorageUnchanged

----------------------------------------------------------------------------
(* Concurrent calls on a rotating client.
     "opensubtitles"  OpenSubtitlesClient.executeWithRotation,
                      src/src/services/opensubtitles.ts:33-85
     "deepl"          DeepLTranslator.executeWithRotation,
                      src/src/services/microsoftTranslator.ts:98-137
   Two callers run on one client as the two searches of fetchDualSubtitles do
   (Promise.all, microsoftTranslator.ts:366-369).  A step of a call runs from
   one await to the next: the code between two awaits is not interleaved.
   rotation.calls[i] is the call of caller i:
     pc "start" | "pending" (its request is out) | "done",
     key          the key of the request that is out,
     retryCount   the parameter retryCount, or the local attempts,
     startKeyIndex  the local of the DeepL client,
     tried, requests, answers, cause   the keys it made a request with, how
                  many requests it made, how many were answered and what the
                  last answer was, kept for the properties,
     end          "value" | "null" | "exhausted" | "failed" | "threw". *)

Rotating == {"opensubtitles", "deepl"}

Callers == {1, 2}

\* error?.message?.includes('quota') || error?.message?.includes('limit')
\*   || error?.code === 456
DeepLError(mentions, code, what) == [mentions |-> mentions, code |-> code, what |-> what]

DeepLFailures ==
    {DeepLError("quota", 456, "quota"), DeepLError("limit", 429, "quota"),
     DeepLError("none", 503, "server"), DeepLError("none", 403, "auth")}

isQuotaError(error) ==
    error.mentions = "quota" \/ error.mentions = "limit" \/ error.code = 456

\* a slip: every error rotates the key
rotatesAlways(kind, error) == TRUE

\* whether the catch rotates the key and tries again
rotates(kind, error) ==
    IF kind = "opensubtitles" THEN isRetryableError(error) ELSE isQuotaError(error)

RotationOutcomes(kind) ==
    IF kind = "opensubtitles"
    THEN {Value("content", "found")} \cup {Thrown(e) : e \in Failures}
    ELSE {Value("content", "found")} \cup {Thrown(e) : e \in DeepLFailures}

NewCall == [pc |-> "start", key |-> 0, retryCount |-> 0, startKeyIndex |-> 0,
            tried |-> {}, requests |-> 0, answers |-> 0, cause |-> "none",
            end |-> "none"]

Finished(r, i, end) == [r EXCEPT !.calls[i].pc = "done", !.calls[i].end = end]

\* const currentKey = this.apiKeys[this.currentKeyIndex]; await operation(currentKey)
Requested(r, i) ==
    [r EXCEPT !.calls[i].pc = "pending",
              !.calls[i].key = r.currentKeyIndex,
              !.calls[i].tried = @ \cup {r.currentKeyIndex},
              !.calls[i].requests = @ + 1]

\* opensubtitles.ts:38-47: the call, or its recursive call, up to the await
openSubtitlesEnter(r, i) ==
    IF r.keys = 0 THEN Finished(r, i, "null")
    ELSE IF r.calls[i].retryCount >= r.keys THEN Finished(r, i, "exhausted")
    ELSE Requested(r, i)

\* currentKeyIndex = (currentKeyIndex + 1) % length
Rotated(r, i) ==
    [r EXCEPT !.currentKeyIndex = (@ + 1) % r.keys, !.calls[i].retryCount = @ + 1]

\* opensubtitles.ts:47-84: the request is answered
openSubtitlesAnswer(r, i, outcome) ==
    IF outcome.kind = "value" THEN Finished(r, i, "value")
    ELSE IF rotates("opensubtitles", outcome.error)
         THEN openSubtitlesEnter(Rotated(r, i), i)
         ELSE Finished(r, i, "threw")

\* microsoftTranslator.ts:108-113: the top of the while loop
deepLLoop(r, i) ==
    IF r.calls[i].retryCount < r.keys THEN Requested(r, i)
    ELSE Finished(r, i, "failed")

\* microsoftTranslator.ts:102-107
deepLEnter(r, i) ==
    IF r.keys = 0 THEN Finished(r, i, "threw")
    ELSE deepLLoop([r EXCEPT !.calls[i].startKeyIndex = r.currentKeyIndex], i)

\* microsoftTranslator.ts:113-133: the request is answered
deepLAnswer(r, i, outcome) ==
    IF outcome.kind = "value" THEN Finished(r, i, "value")
    ELSE IF rotates("deepl", outcome.error)
         THEN LET next == Rotated(r, i)
              IN IF next.currentKeyIndex = next.calls[i].startKeyIndex
                 THEN Finished(next, i, "exhausted")
                 ELSE deepLLoop(next, i)
         ELSE Finished(r, i, "threw")

\* a client with 0 to MaxKeys keys, and two callers about to call
InitRotation ==
    /\ variant = "strict" /\ route = "rotation"
    /\ srt1 = Null /\ srt2 = Null /\ offset = 0
    /\ pc = "done" /\ merged = NoResult /\ response = NoResponse
    /\ codec = NoCodec /\ tr = NoTr /\ pick = NoPick
    /\ cache = NoCache /\ fetch = NoFetch /\ openSubtitlesClient = NoClient
    /\ repeat = NoRepeat /\ subtitleStorage = NoStorage
    /\ \E kind \in Rotating : \E keys \in 0..MaxKeys :
          rotation = [kind |-> kind, keys |-> keys, currentKeyIndex |-> 0,
                      round |-> 1, calls |-> [i \in Callers |-> NewCall]]

RotationUnchanged ==
    UNCHANGED <<variant, route, srt1, srt2, offset, pc, merged, response, codec, tr,
                cache, fetch, pick, openSubtitlesClient, repeat, subtitleStorage>>

\* a caller calls executeWithRotation: it runs up to its first await
RotationEnter ==
    /\ route = "rotation"
    /\ \E i \in Callers :
          /\ rotation.calls[i].pc = "start"
          /\ rotation' = IF rotation.kind = "opensubtitles"
                         THEN openSubtitlesEnter(rotation, i)
                         ELSE deepLEnter(rotation, i)
    /\ RotationUnchanged

\* the request of a caller is answered: the call runs up to its next await or
\* to its end
RotationAnswer ==
    /\ route = "rotation"
    /\ \E i \in Callers :
          /\ rotation.calls[i].pc = "pending"
          /\ \E outcome \in RotationOutcomes(rotation.kind) :
                LET answered == [rotation EXCEPT !.calls[i].answers = @ + 1,
                                                 !.calls[i].cause = outcome.what]
                IN rotation' = IF rotation.kind = "opensubtitles"
                               THEN openSubtitlesAnswer(answered, i, outcome)
                               ELSE deepLAnswer(answered, i, outcome)
    /\ RotationUnchanged

\* both calls are over; the callers call again: the key in use stays
RotationNextRound ==
    /\ route = "rotation"
    /\ \A i \in Callers : rotation.calls[i].pc = "done"
    /\ rotation.round < MaxCalls
    /\ rotation' = [rotation EXCEPT !.round = @ + 1,
                                    !.calls = [i \in Callers |-> NewCall]]
    /\ RotationUnchanged

----------------------------------------------------------------------------
(* mergeSubtitles (strict consumption) called twice with the same arguments *)

InitTwice ==
    /\ variant = "strict"
    /\ route = "twice"
    /\ \/ /\ srt1 \in {Str(c) : c \in ContentsOf(MasterTimes, MasterTexts)}
          /\ srt2 \in {Str(c) : c \in ContentsOf(SecondaryTimes, SecondaryTexts)}
          /\ offset \in Offsets
       \/ /\ \E sc \in Scenarios : srt1 = Str(sc.srt1) /\ srt2 = Str(sc.srt2)
          /\ offset = 0
    /\ pc = "start"
    /\ merged = NoResult /\ response = NoResponse
    /\ codec = NoCodec /\ tr = NoTr
    /\ cache = NoCache /\ fetch = NoFetch /\ pick = NoPick
    /\ openSubtitlesClient = NoClient /\ subtitleStorage = NoStorage /\ rotation = NoRotation
    /\ repeat = [pc |-> "start", left |-> NothingLeft, second |-> NoResult]

FirstCall ==
    /\ route = "twice" /\ pc = "start"
    /\ LET call == mergeAnchoredAfter(variant, srt1.blocks, srt2.blocks, offset,
                                      repeat.left)
       IN /\ merged' = call.result
          /\ repeat' = [repeat EXCEPT !.pc = "once", !.left = call.left]
    /\ pc' = "done"
    /\ UNCHANGED <<variant, route, srt1, srt2, offset, response, codec, tr, cache,
                   fetch, pick, openSubtitlesClient, subtitleStorage,
                   rotation>>

SecondCall ==
    /\ route = "twice" /\ repeat.pc = "once"
    /\ LET call == mergeAnchoredAfter(variant, srt1.blocks, srt2.blocks, offset,
                                      repeat.left)
       IN repeat' = [pc |-> "twice", left |-> call.left, second |-> call.result]
    /\ UNCHANGED <<variant, route, srt1, srt2, offset, pc, merged, response, codec,
                   tr, cache, fetch, pick, openSubtitlesClient, subtitleStorage,
                   rotation>>

----------------------------------------------------------------------------
(* processText of the word-wrap variant, src/unnamed/part_011:42-82, called
   on its own with texts long enough to be wrapped *)

\* longest text handed to processText, in tokens
MaxWrapTokens == 5

\* a word that fills a line with "dictionary", a word longer than a line,
\* short words, whitespace and markup
WrapTokens == {"Supercalifragilisticexpialidocious", "dictionary", "a",
               "https://github.com/blackcat112/dual-subtitles-stremio-addon",
               " ", "\n", "<i>"}

WrapTexts == UNION {[1..n -> WrapTokens] : n \in 0..MaxWrapTokens}

InitWrap ==
    /\ variant = "wordwrap" /\ route = "wrap"
    /\ srt1 = Null /\ srt2 = Null /\ offset = 0
    /\ pc = "done" /\ merged = NoResult /\ response = NoResponse
    /\ codec = NoCodec /\ tr = NoTr
    /\ cache = NoCache /\ fetch = NoFetch /\ openSubtitlesClient = NoClient
    /\ repeat = NoRepeat /\ subtitleStorage = NoStorage /\ rotation = NoRotation
    /\ \E text \in WrapTexts : \E isSecondary \in BOOLEAN :
          pick = [pc |-> "start", op |-> "wrap", text |-> text,
                  isSecondary |-> isSecondary, out |-> <<>>]

WrapCall ==
    /\ pick.pc = "start" /\ pick.op = "wrap"
    /\ pick' = [pick EXCEPT !.out = processText(pick.text, pick.isSecondary),
                            !.pc = "done"]
    /\ OthersUnchanged /\ UNCHANGED <<cache, fetch>>

Init ==
    \/ InitCall(Variants) \/ InitServe \/ InitCodec \/ InitTranslate \/ InitCache
    \/ InitSimilarity \/ InitBest \/ InitDual({"smart", "cached"}) \/ InitClient
    \/ InitFetchTranslate \/ InitUnion \/ InitWrap \/ InitTwice \/ InitRotation
    \/ InitStorage \/ InitLibre

Next ==
    \/ MergeCall \/ SubtitlesHandler \/ OnDemandEndpoint
    \/ SerializeCall \/ ParseCall
    \/ LibreStage \/ DeepLStage \/ GoogleCall \/ SequentialBatch \/ ReturnResults
    \/ CacheGet \/ CacheSet \/ CleanExpired \/ Tick
    \/ SimilarityCalls \/ BestCall
    \/ DualSearch \/ DualDownload \/ CachedDual \/ RepeatRequest
    \/ ClientRequest \/ ClientRetry \/ ClientNextCall
    \/ TranslateFetch \/ TranslateBatchDone \/ TranslateAgain
    \/ WrapCall \/ FirstCall \/ SecondCall
    \/ RotationEnter \/ RotationAnswer \/ RotationNextRound
    \/ StorageStore \/ StorageGet \/ StorageTick
    \/ LibreChunk \/ LibreReturn

Spec == Init /\ [][Next]_vars

SpecCodec == InitCodec /\ [][SerializeCall \/ ParseCall]_vars

\* calculateSimilarity on every pair of filenames
SpecSimilarity == InitSimilarity /\ [][SimilarityCalls]_vars

\* LibreTranslateClient.translateBatch, every request free to fail
SpecLibre == InitLibre /\ [][LibreChunk \/ LibreReturn]_vars

\* the storage: store and get calls while time passes
SpecStorage == InitStorage /\ [][StorageStore \/ StorageGet \/ StorageTick]_vars

\* two concurrent executeWithRotation calls on one client, round after round
SpecRotation ==
    InitRotation /\ [][RotationEnter \/ RotationAnswer \/ RotationNextRound]_vars

\* every call that can take a step takes it in the end: a request that is out
\* is answered or times out (timeout: 10000)
SpecRotationFair ==
    SpecRotation /\ WF_vars(RotationEnter \/ RotationAnswer \/ RotationNextRound)

\* mergeSubtitles, then mergeSubtitles again
SpecTwice == InitTwice /\ [][FirstCall \/ SecondCall]_vars

\* processText on every text
SpecWrap == InitWrap /\ [][WrapCall]_vars

\* getBestSubtitle on every list of candidates
SpecBest == InitBest /\ [][BestCall]_vars

\* fetchDualSubtitles, twice for the same title, time passing in between
SpecSmart ==
    InitDual({"smart"}) /\ [][DualSearch \/ DualDownload \/ RepeatRequest \/ Tick]_vars
SpecCached ==
    InitDual({"cached"}) /\ [][CachedDual \/ RepeatRequest \/ Tick]_vars

\* the cache alone: gets, sets and sweeps on a few keys while time passes
\* fetchAndTranslateSubtitle, twice for the same title, time passing in between
SpecFetchTranslate ==
    InitFetchTranslate
        /\ [][TranslateFetch \/ TranslateBatchDone \/ TranslateAgain \/ Tick]_vars

\* calls of searchSubtitles and downloadSubtitle on one client
SpecClient == InitClient /\ [][ClientRequest \/ ClientRetry \/ ClientNextCall]_vars

SpecCache == InitCache /\ [][CacheGet \/ CacheSet \/ CleanExpired \/ Tick]_vars

\* translateBatch; every await of a pending call is answered in the end
SpecTranslate == InitTranslate /\ [][NextTranslate]_vars
SpecTranslateFair == SpecTranslate /\ WF_vars(NextTranslate)

\* one specification for each variant of mergeSubtitles, and one for the serving layer
SpecStrict     == InitCall({"strict"}) /\ [][MergeCall]_vars
SpecWordWrap   == InitCall({"wordwrap"}) /\ [][MergeCall]_vars
SpecSideBySide == InitCall({"sidebyside"}) /\ [][MergeCall]_vars
SpecUnion0     == InitCall({"union0"}) /\ [][MergeCall]_vars
SpecServe      == InitServe /\ [][SubtitlesHandler \/ OnDemandEndpoint]_vars
SpecUnion      == InitUnion /\ [][MergeCall]_vars

\* the two variants whose master loop skips a master cue without text by
\* `if (!text1) continue` on a styled-text helper
SpecStrictWordWrap == InitCall({"strict", "wordwrap"}) /\ [][MergeCall]_vars

----------------------------------------------------------------------------
(* What the claims speak of, read off the inputs and the returned entries *)

Done == pc = "done"

\* the cues of the two input files, in file order
In1 == SelectSeq(srt1.blocks, LAMBDA b : b.shape = "ok")
In2 == SelectSeq(srt2.blocks, LAMBDA b : b.shape = "ok")

\* a successful (non-degenerate) merge has been returned
Merged == Done /\ In1 # <<>> /\ In2 # <<>>

\* start and end of secondary cue j after the offset
Start2(j) == In2[j].startTime + offset
End2(j) == In2[j].endTime + offset

\* the overlap rule with its 50 ms guard, master cue i against secondary cue j
Rule50(i, j) ==
    /\ In1[i].startTime < End2(j) - 50
    /\ In1[i].endTime > Start2(j) + 50

\* what is left of a text once markup and surrounding whitespace are removed
Visible(text) ==
    LET body == SelectSeq(text, LAMBDA tok : tok \notin Tags)
        RECURSIVE Strip(_)
        Strip(t) == IF t # <<>> /\ Head(t) \in Whitespace THEN Strip(Tail(t))
                    ELSE IF t # <<>> /\ t[Len(t)] \in Whitespace
                         THEN Strip(SubSeq(t, 1, Len(t) - 1))
                         ELSE t
    IN Strip(body)

OutCues == merged.cues
OutIdx == 1..Len(merged.cues)

\* output cues anchored on a master cue, output cues of an orphan
Anchored_(k) == OutCues[k].m # 0
Orphan_(k) == OutCues[k].m = 0

\* the output cues that carry the text of secondary cue j
Carriers(j) == {k \in OutIdx : \E n \in 1..Len(OutCues[k].parts) : OutCues[k].parts[n] = j}

\* secondary cue j was matched to a master cue
Consumed(j) == \E k \in Carriers(j) : Anchored_(k)

----------------------------------------------------------------------------
(* C1 *)

\* C1: consumption rule. Each secondary cue's text is carried by at most one
\* output cue: a cue matched to a master cue is not matched to a later master
\* cue, and is not emitted as an orphan as well.
C1_Consumption ==
    Merged => \A j \in 1..Len(In2) : Cardinality(Carriers(j)) <= 1

----------------------------------------------------------------------------
(* C2 *)

\* secondary cue j lies inside master cue i around the same midpoint, and the
\* two cues together last longer than twice the guard
Centred(i, j) ==
    /\ In1[i].startTime <= Start2(j) /\ End2(j) <= In1[i].endTime
    /\ Start2(j) - In1[i].startTime = In1[i].endTime - End2(j)
    /\ (In1[i].endTime - In1[i].startTime) + (End2(j) - Start2(j)) > 100

\* C2: guard band. The output cue of master cue i carries secondary cue j
\* exactly when masterStart < secondaryEnd - 50 and masterEnd > secondaryStart + 50
\* (and j was not taken by an earlier master cue); a secondary cue is attached
\* to at most one master cue; a secondary cue centred over a master cue that
\* has text is attached to it (or was taken by an earlier master cue).
C2_GuardBand ==
    Merged =>
      /\ \A k \in OutIdx : Anchored_(k) =>
           \A j \in 1..Len(In2) :
              (k \in Carriers(j)) <=>
                 /\ Rule50(OutCues[k].m, j)
                 /\ ~\E l \in Carriers(j) : Anchored_(l) /\ OutCues[l].m < OutCues[k].m
      /\ \A j \in 1..Len(In2) :
           Cardinality({k \in Carriers(j) : Anchored_(k)}) <= 1
      /\ \A i \in 1..Len(In1), j \in 1..Len(In2) :
           (Centred(i, j) /\ \E k \in OutIdx : OutCues[k].m = i) =>
              \E k \in Carriers(j) : Anchored_(k) /\ OutCues[k].m <= i

\* A merge has ended in which a short secondary cue straddles the boundary of
\* two back-to-back master cues and is attached to neither of them.
C2_Witness ==
    /\ Merged /\ Len(In1) = 2 /\ Len(In2) = 1
    /\ In1[1].endTime = In1[2].startTime
    /\ Start2(1) < In1[1].endTime /\ In1[2].startTime < End2(1)
    /\ ~Rule50(1, 1) /\ ~Rule50(2, 1)
    /\ Len(OutCues) = 3 /\ ~Consumed(1)

----------------------------------------------------------------------------
(* C3 *)

\* secondary cue j has its own output cue, with its own shifted start and end
HasOwnCue(j) ==
    \E k \in OutIdx :
        /\ Orphan_(k) /\ OutCues[k].parts = <<j>>
        /\ OutCues[k].startTime = Start2(j) /\ OutCues[k].endTime = End2(j)

NoMasterOverlap(j) == \A i \in 1..Len(In1) : ~Rule50(i, j)

\* C3 as stated: every secondary cue that was not consumed has its own output
\* cue, so there are at least as many output cues as secondary cues that
\* overlap no master cue.
C3_OrphansKept_Stated ==
    Merged =>
      /\ \A j \in 1..Len(In2) : ~Consumed(j) => HasOwnCue(j)
      /\ Len(OutCues) >= Cardinality({j \in 1..Len(In2) : NoMasterOverlap(j)})

\* C3 as amended: every secondary cue that was not consumed and whose cleaned
\* text is not empty has its own output cue with its own shifted start and end,
\* so there are at least as many output cues as secondary cues with text that
\* overlap no master cue.
C3_OrphansKept ==
    Merged =>
      /\ \A j \in 1..Len(In2) :
           (~Consumed(j) /\ Visible(In2[j].text) # <<>>) => HasOwnCue(j)
      /\ Len(OutCues) >=
           Cardinality({j \in 1..Len(In2) :
                           NoMasterOverlap(j) /\ Visible(In2[j].text) # <<>>})

\* a shifted secondary cue with text that overlaps no master cue is in the output
C3_Witness ==
    /\ Merged /\ offset # 0
    /\ \E j \in 1..Len(In2) :
          NoMasterOverlap(j) /\ Visible(In2[j].text) # <<>> /\ HasOwnCue(j)
    /\ \E k \in OutIdx : Anchored_(k)

----------------------------------------------------------------------------
(* C4 *)

\* C4: degenerate inputs. If either input parses to no cue, the result is
\* empty; the other track is not passed through.
C4_Degenerate ==
    (Done /\ (In1 = <<>> \/ In2 = <<>>)) => merged.out = <<>>

----------------------------------------------------------------------------
(* C5 *)

\* C5: the result for a degenerate input (the empty string) can be told from
\* the result of a successful merge of two non-empty tracks: no such merge
\* returns the empty string.
C5_CannotMergeDistinct ==
    Merged => merged.out # <<>>

----------------------------------------------------------------------------
(* C6 *)

\* no dual subtitle can be produced: a track is missing, or parses to no cue
CannotProduce == ~Truthy(srt1) \/ ~Truthy(srt2) \/ In1 = <<>> \/ In2 = <<>>

\* C6: when no dual subtitle can be produced the serving layer reports an
\* absent result: the handler an empty subtitle list, the on-demand endpoint a
\* 404 (never a 200 with an empty or single-track body).
C6_AbsentResult ==
    (Done /\ CannotProduce) =>
        IF route = "handler" THEN response.subtitles = <<>>
        ELSE response.status = 404

----------------------------------------------------------------------------
(* C7 *)

\* C7: final ordering. Output cues are in ascending order of start; of a
\* master-anchored cue and an orphan cue with the same start the master-anchored
\* one comes first; the serialized blocks are the output cues in that order,
\* numbered 1..n.
C7_FinalOrdering ==
    Merged =>
      /\ \A k \in OutIdx, l \in OutIdx :
           k < l =>
             /\ OutCues[k].startTime <= OutCues[l].startTime
             /\ OutCues[k].startTime = OutCues[l].startTime
                  => ~(Orphan_(k) /\ Anchored_(l))
      /\ Len(merged.out) = Len(OutCues)
      /\ \A k \in OutIdx :
           /\ merged.out[k].index = k
           /\ OutCues[k].index = k
           /\ merged.out[k].text = OutCues[k].text

\* a master-anchored cue and an orphan cue start at the same time
C7_Witness ==
    /\ Merged
    /\ \E k \in OutIdx, l \in OutIdx :
          /\ k < l /\ Anchored_(k) /\ Orphan_(l)
          /\ OutCues[k].startTime = OutCues[l].startTime
    /\ \E k \in OutIdx : k > 1 /\ OutCues[k - 1].startTime < OutCues[k].startTime

----------------------------------------------------------------------------
(* C8 *)

\* a track in ascending time order whose cues do not overlap each other
TimeSorted(cues) ==
    \A i \in 1..(Len(cues) - 1) : cues[i].endTime <= cues[i + 1].startTime

\* C8: for two time-sorted, internally non-overlapping inputs and any offset,
\* each output cue ends no later than the next one starts.
C8_Monotonic ==
    (Merged /\ TimeSorted(In1) /\ TimeSorted(In2)) =>
        \A k \in 1..(Len(OutCues) - 1) :
            OutCues[k].endTime <= OutCues[k + 1].startTime

----------------------------------------------------------------------------
(* C9 *)

HelloBonjour ==
    /\ srt1.blocks = <<Cue(1, 0, 2000, <<"Hello">>)>>
    /\ srt2.blocks = <<Cue(1, 500, 1500, <<"Bonjour">>)>>
    /\ offset = 0

Contains(text, tok) == \E n \in 1..Len(text) : text[n] = tok

\* C9: timing. An output cue anchored on a master cue has that master cue's
\* start and end whatever secondary cues it carries; an orphan cue has the
\* shifted start and end of its secondary cue. Master [0,2000 Hello] with
\* secondary [500,1500 Bonjour] gives one cue 0..2000 with both texts.
C9_Timing ==
    Merged =>
      /\ \A k \in OutIdx :
           IF Anchored_(k)
           THEN /\ OutCues[k].m \in 1..Len(In1)
                /\ OutCues[k].startTime = In1[OutCues[k].m].startTime
                /\ OutCues[k].endTime = In1[OutCues[k].m].endTime
           ELSE \E j \in 1..Len(In2) :
                   /\ OutCues[k].parts = <<j>>
                   /\ OutCues[k].startTime = Start2(j)
                   /\ OutCues[k].endTime = End2(j)
      /\ HelloBonjour =>
           /\ Len(OutCues) = 1
           /\ OutCues[1].startTime = 0 /\ OutCues[1].endTime = 2000
           /\ Contains(OutCues[1].text, "Hello")
           /\ Contains(OutCues[1].text, "Bonjour")
           /\ merged.out[1].endTimestamp =
                [hours |-> 0, minutes |-> 0, seconds |-> 2, milliseconds |-> 0]

\* with a non-zero offset, a master-anchored cue carries a secondary cue of
\* another timing, and an orphan cue is in the output
C9_Witness ==
    /\ Merged /\ offset # 0
    /\ \E k \in OutIdx :
          /\ Anchored_(k) /\ OutCues[k].parts # <<>>
          /\ Start2(OutCues[k].parts[1]) # OutCues[k].startTime
          /\ End2(OutCues[k].parts[1]) # OutCues[k].endTime
    /\ \E k \in OutIdx : Orphan_(k)

----------------------------------------------------------------------------
(* C10 *)

\* the master cues that carry secondary cue j in the output
MastersOf(j) == {OutCues[k].m : k \in Carriers(j)}

StartSorted(cues) ==
    \A i \in 1..(Len(cues) - 1) : cues[i].startTime <= cues[i + 1].startTime

----------------------------------------------------------------------------
(* C11 *)

\* the words of a text: its tokens that are neither markup nor whitespace
Words(text) == SelectSeq(text, LAMBDA tok : tok \notin (Tags \cup Whitespace))

\* the words of the secondary cues at the positions parts, one cue after the other
RECURSIVE WordsOfParts(_)
WordsOfParts(parts) ==
    IF parts = <<>> THEN <<>>
    ELSE Words(In2[Head(parts)].text) \o WordsOfParts(Tail(parts))

\* the output cue of a master cue reads: the master's words, then the words of
\* the secondary cues it carries, in the order of parts; each of these cues is
\* carried by this output cue alone
CarriesInOrder(k) ==
    /\ Words(OutCues[k].text) =
          Words(In1[OutCues[k].m].text) \o WordsOfParts(OutCues[k].parts)
    /\ \A n \in 1..Len(OutCues[k].parts) : Carriers(OutCues[k].parts[n]) = {k}

----------------------------------------------------------------------------
(* C12 *)

\* every master cue that satisfies the overlap rule with secondary cue j has
\* no text left after cleaning (and there is such a master cue)
OnlyEmptyMasters(j) ==
    /\ \E i \in 1..Len(In1) : Rule50(i, j)
    /\ \A i \in 1..Len(In1) : Rule50(i, j) => Visible(In1[i].text) = <<>>

\* C12: a master cue whose text is empty after cleaning has no output cue and
\* consumes nothing: a secondary cue that overlaps only such master cues is
\* emitted as an orphan with its own times.
C12_EmptyMasterDropped ==
    Merged =>
      /\ \A i \in 1..Len(In1) :
           Visible(In1[i].text) = <<>> => ~\E k \in OutIdx : OutCues[k].m = i
      /\ \A j \in 1..Len(In2) :
           OnlyEmptyMasters(j) => (~Consumed(j) /\ HasOwnCue(j))

\* a master cue without text overlaps a secondary cue, which is in the output
\* as an orphan, next to the output cue of a master cue with text
C12_Witness ==
    /\ Merged
    /\ \E j \in 1..Len(In2) : OnlyEmptyMasters(j) /\ HasOwnCue(j)
    /\ \E k \in OutIdx : Anchored_(k)

----------------------------------------------------------------------------
(* C13 *)

\* the overlap rule on the times of the files, without the offset
Rule50Unshifted(i, j) ==
    /\ In1[i].startTime < In2[j].endTime - 50
    /\ In1[i].endTime > In2[j].startTime + 50

\* C13: offset. Matching is done on the secondary times plus the offset, start
\* and end alike: a secondary cue carried by a master cue satisfies the overlap
\* rule after the shift, an orphan is emitted with start + offset and
\* end + offset (its duration is that of the file) and satisfies the rule after
\* the shift with no master cue that has text, and every master-anchored cue
\* has the start and end of its master cue as they are in the file.
C13_Offset ==
    Merged =>
      \A k \in OutIdx :
         IF Anchored_(k)
         THEN /\ OutCues[k].startTime = In1[OutCues[k].m].startTime
              /\ OutCues[k].endTime = In1[OutCues[k].m].endTime
              /\ \A n \in 1..Len(OutCues[k].parts) :
                    Rule50(OutCues[k].m, OutCues[k].parts[n])
         ELSE LET j == OutCues[k].parts[1]
              IN /\ OutCues[k].startTime - In2[j].startTime = offset
                 /\ OutCues[k].endTime - In2[j].endTime = offset
                 /\ OutCues[k].endTime - OutCues[k].startTime
                      = In2[j].endTime - In2[j].startTime
                 /\ \A i \in 1..Len(In1) :
                       Rule50(i, j) => Visible(In1[i].text) = <<>>

\* with a non-zero offset a master cue carries a secondary cue that it
\* overlaps only after the shift
C13_Witness ==
    /\ Merged /\ offset # 0
    /\ \E k \in OutIdx :
          /\ Anchored_(k) /\ OutCues[k].parts # <<>>
          /\ ~Rule50Unshifted(OutCues[k].m, OutCues[k].parts[1])

----------------------------------------------------------------------------
(* C14 *)

Parsed == codec.pc = "parsed"

\* same number of cues, same start, end and text at every position
SameCues(a, b) ==
    /\ Len(a) = Len(b)
    /\ \A n \in 1..Len(a) :
          /\ a[n].startTime = b[n].startTime
          /\ a[n].endTime = b[n].endTime
          /\ a[n].text = b[n].text

\* C14: round trip. For every well-formed cue sequence (end > start, non-empty
\* text) parseSRT(serializeSRT(seq)) has the cues of seq: same number, same
\* start, end and text at every position.
C14_RoundTrip ==
    (Parsed /\ codec.op = "roundtrip") => SameCues(codec.entries, codec.seq)

\* the text of a cue has no empty line in it
NoEmptyLine(text) == \A n \in 1..(Len(text) - 1) : ~(text[n] = "\n" /\ text[n + 1] = "\n")

\* where the round trip does hold in the code: texts without an empty line
RoundTripOfPlainTexts ==
    (Parsed /\ codec.op = "roundtrip"
       /\ \A n \in 1..Len(codec.seq) : NoEmptyLine(codec.seq[n].text))
    => SameCues(codec.entries, codec.seq)

----------------------------------------------------------------------------
(* C15 *)

\* the blocks that lack an integer ordinal line, a valid timecode line or a
\* text line
Lacking == {"noOrdinal", "badOrdinal", "noTimecode", "badTimecode", "noText"}

\* the cue a block of the other kinds stands for
CueOfKind(kind) ==
    CASE kind = "cue"      -> [startTime |-> 0, endTime |-> 1500, text |-> <<"Hello">>]
      [] kind = "cue2"     -> [startTime |-> 1500, endTime |-> 3723004,
                               text |-> <<"Hello", "\n", "Bonjour">>]
      [] kind = "zero"     -> [startTime |-> 1500, endTime |-> 1500, text |-> <<"Hi">>]
      [] kind = "negative" -> [startTime |-> 3723004, endTime |-> 1500, text |-> <<"Hi">>]

\* the cues of the blocks that lack nothing, in file order
ExpectedCues ==
    LET kept == SelectSeq(codec.blocks, LAMBDA kind : kind \notin Lacking)
    IN [n \in 1..Len(kept) |-> CueOfKind(kept[n])]

----------------------------------------------------------------------------
(* C16 *)

\* C16: every cue parseSRT returns has end > start (a block whose timecode
\* line gives a zero or negative duration is dropped).
C16_PositiveDuration ==
    Parsed => \A n \in 1..Len(codec.entries) :
                 codec.entries[n].endTime > codec.entries[n].startTime

----------------------------------------------------------------------------
(* C17 *)

\* a timecode as HH:MM:SS,mmm: no negative field, minutes and seconds below
\* 60, milliseconds below 1000
WellFormedStamp(stamp) ==
    /\ stamp.hours >= 0
    /\ stamp.minutes \in 0..59 /\ stamp.seconds \in 0..59
    /\ stamp.milliseconds \in 0..999

\* C17: every block of the string mergeSubtitles returns is a cue block:
\* ordinal, a timecode line of two well-formed timecodes, at least one
\* character of text; for every input and every offset, negative ones too.
C17_OutputFormat ==
    Done =>
      \A k \in 1..Len(merged.out) :
         /\ merged.out[k].index = k
         /\ WellFormedStamp(merged.out[k].startTimestamp)
         /\ WellFormedStamp(merged.out[k].endTimestamp)
         /\ merged.out[k].text # <<>>

----------------------------------------------------------------------------
(* C18: translateBatch returns exactly one output per input, the i-th output
   made from the i-th input (its translation, or what was put in its place),
   for every pattern of provider failure and every fallback across providers. *)
TrReturned == route = "translate" /\ tr.pc = "done"

Translatable(k) == ~Skippable(tr.texts[k]) /\ k \notin tr.bad

C19_LineIsolation ==
    (TrReturned /\ ~tr.throttled) =>
        \A k \in 1..Len(tr.texts) :
            /\ (k \in tr.bad => tr.results[k].how = "original")
            /\ (Translatable(k) => tr.results[k].how = "translated")

\* the scenario itself, where the code does isolate: the LibreTranslate client
\* that retries line by line
C19_IsolatedByLibre ==
    /\ TrReturned /\ tr.libre = "fallback" /\ Len(tr.texts) = 3 /\ tr.bad = {2}
    /\ tr.results = <<Res(1, "translated"), Res(2, "original"), Res(3, "translated")>>

(* C20: on 429 a chunk is retried at most InitialRetries times, each delay
   twice the one before; a chunk whose retries are used up is returned as the
   original lines and the chunks after it are still processed; the call
   always returns. *)
DelaysOf(chunk) == SelectSeq(tr.delays, LAMBDA d : d.chunk = chunk)

ChunkOf(k) == ((k - 1) \div MAX_CHUNK_SIZE) * MAX_CHUNK_SIZE + 1

C20_Backoff ==
    route = "translate" =>
        /\ \A c \in 1..Len(tr.texts) :
              /\ Len(DelaysOf(c)) <= InitialRetries(tr.impl)
              /\ \A x \in 2..Len(DelaysOf(c)) :
                    DelaysOf(c)[x].delay = 2 * DelaysOf(c)[x - 1].delay
        /\ \A k \in 1..Len(tr.texts) :
              ChunkOf(k) \in tr.exhausted =>
                 /\ Len(DelaysOf(ChunkOf(k))) = InitialRetries(tr.impl)
                 /\ tr.results[k] = Res(k, "original")
        /\ tr.pc = "done" =>
              \A k \in 1..Len(tr.texts) : tr.results[k].how \notin {"undefined", "empty"}

C20_Throttling == [](C20_Backoff) /\ <>(tr.pc = "done")

\* the first chunk used up its retries, the second was translated
C20_Witness ==
    /\ TrReturned /\ tr.exhausted = {1} /\ Len(tr.texts) = 4
    /\ Len(DelaysOf(1)) = InitialRetries(tr.impl)
    /\ tr.results[4] = Res(4, "translated")

----------------------------------------------------------------------------
(* C27: get(key) returns the content of the last set on that key when that
   set was at most TTL ago, and null otherwise, removing the entry it found
   expired; an entry that is present is the one the last set on its own key
   wrote, whatever was done to other keys in between. *)
C27_CacheContract ==
    route = "cache" =>
        /\ \A k \in DOMAIN cache.map :
              k \in DOMAIN cache.last /\ cache.map[k] = cache.last[k]
        /\ cache.op.name = "get" =>
              LET k == cache.op.key
                  fresh == /\ k \in DOMAIN cache.last
                           /\ cache.op.at - cache.last[k].timestamp <= TTL
              IN /\ cache.op.result = IF fresh THEN cache.last[k].content ELSE "null"
                 /\ (k \in DOMAIN cache.last /\ ~fresh) => k \notin DOMAIN cache.map

\* a get found its entry expired and removed it, and the entry of another key
\* is still there; and a get at exactly TTL after the set returned the content
C27_Witness ==
    /\ route = "cache" /\ cache.op.name = "get"
    /\ cache.op.key \in DOMAIN cache.last
    /\ cache.op.at - cache.last[cache.op.key].timestamp = TTL
    /\ cache.op.result = "B"
    /\ \E k \in DOMAIN cache.last :
          k # cache.op.key /\ k \notin DOMAIN cache.map

----------------------------------------------------------------------------
(* C22: the compatibility score is symmetric,
   calculateSimilarity(a, b) = calculateSimilarity(b, a), for every pair of
   filenames, those that carry several source-type tags included. *)
Scored == route = "similarity" /\ pick.pc = "done"

C22_Symmetric == Scored => FracEq(pick.score, pick.reverse)

\* where it is symmetric: no name with both source types
C22_SymmetricSingleSource ==
    (Scored /\ ~({"hdtv", "bluray"} \subseteq pick.a) /\ ~({"hdtv", "bluray"} \subseteq pick.b))
        => FracEq(pick.score, pick.reverse)

(* C23: two names with a disc-rip tag and the same resolution tag score
   strictly higher than the same two names with the disc-rip tag of the
   second one replaced by hdtv. *)
DiscTags == {"bluray", "bdrip"}
ResolutionTags == {"1080p", "720p", "2160p", "4k"}

ReplaceTag(s, old, new) == (s \ {old}) \cup {new}

C23_DiscRipPairHigher ==
    Scored =>
        \A disc \in DiscTags :
            (/\ disc \in pick.a /\ disc \in pick.b
             /\ "hdtv" \notin pick.a /\ "hdtv" \notin pick.b
             /\ \E r \in ResolutionTags : r \in pick.a /\ r \in pick.b)
            => FracLess(calculateSimilarity(pick.a, ReplaceTag(pick.b, disc, "hdtv")),
                        pick.score)

\* the same for names with one resolution tag each
C23_OneResolution ==
    (Scored /\ Cardinality(pick.a \cap ResolutionTags) = 1
            /\ Cardinality(pick.b \cap ResolutionTags) = 1)
        => C23_DiscRipPairHigher

----------------------------------------------------------------------------
(* C29: in getBestSubtitle a candidate of a trusted or sub_translator
   uploader wins over a candidate that differs from it only by having no
   uploader rank and by its download count: the one without rank is never
   the one selected, whatever the two download counts are. *)
Twins(trusted, plain) ==
    /\ trusted.uploaderRank \in {"trusted", "sub_translator"}
    /\ plain.uploaderRank = Undefined
    /\ [trusted EXCEPT !.uploaderRank = Undefined, !.downloads = 0]
         = [plain EXCEPT !.downloads = 0]

C29_TrustBeatsDownloads ==
    (route = "best" /\ pick.pc = "done") =>
        \A i, j \in 1..Len(pick.subtitles) :
            Twins(pick.subtitles[i], pick.subtitles[j]) => pick.best # j

\* the candidate without rank comes first and has all the downloads, and the
\* trusted one is selected
C29_Witness ==
    /\ route = "best" /\ pick.pc = "done" /\ Len(pick.subtitles) = 2
    /\ Twins(pick.subtitles[2], pick.subtitles[1])
    /\ pick.subtitles[1].downloads = 1000 /\ pick.subtitles[2].downloads = 0
    /\ pick.best = 2

----------------------------------------------------------------------------
(* C24: fetchDualSubtitles (smart) takes its pair from the first 10
   candidates of each list, the pair has the highest score among these
   pairs, among the pairs with that score it is the one whose first member
   comes earliest in its list and then whose second member comes earliest,
   and the two files it downloads are the files of that pair. *)
Top1 == Slice(fetch.results.es, TOP)
Top2 == Slice(fetch.results.en, TOP)

PairScore(i, j) == calculateSimilarity(Top1[i].fileName, Top2[j].fileName)

Picked == route = "fetch" /\ fetch.impl = "smart" /\ fetch.bestPair.sub1 > 0

C24_WitnessTie ==
    /\ Picked /\ fetch.pc = "done"
    /\ Len(fetch.results.es) = 2 /\ Len(fetch.results.en) = 2
    /\ \A a, b \in 1..2 : FracEq(PairScore(a, b), fetch.bestPair.score)
    /\ fetch.downloads = <<fetch.results.es[1].id, fetch.results.en[1].id>>

----------------------------------------------------------------------------
(* C25: when the search of either language finds nothing, fetchDualSubtitles
   (smart) returns [null, null], has called downloadSubtitle for no file and
   has left the cache's entries as they were; and when a download came back
   empty, the entry of that language is absent or the one from before the
   request. *)
Languages == {"es", "en"}

SmartDone == route = "fetch" /\ fetch.impl = "smart" /\ fetch.pc = "done"

NothingCachedFor(lang) ==
    KeyOf(lang) \in DOMAIN cache.map =>
        /\ KeyOf(lang) \in DOMAIN fetch.mapAtStart
        /\ cache.map[KeyOf(lang)] = fetch.mapAtStart[KeyOf(lang)]

C25_WitnessNoResults ==
    /\ SmartDone
    /\ fetch.results.es # <<>> /\ fetch.results.en = <<>>
    /\ fetch.returned = <<"null", "null">>

----------------------------------------------------------------------------
(* C28: when the first request returned both files, and the second request
   for the same title, languages and episode starts while both cache entries
   are within the TTL, the second request calls downloadSubtitle for no
   file. *)
Fresh(lang) ==
    /\ KeyOf(lang) \in DOMAIN fetch.mapAtStart
    /\ ~isExpired(cache.now, fetch.mapAtStart[KeyOf(lang)])

RepeatWithinTTL ==
    /\ route = "fetch" /\ fetch.request = 2 /\ fetch.pc = "done"
    /\ \A n \in 1..2 : fetch.first.returned[n] \notin {"null", "none", Empty}
    /\ \A lang \in Languages : Fresh(lang)

C28_RepeatDownloadsNothing ==
    RepeatWithinTTL => fetch.downloads = <<>>

\* the same for the variant of src/unnamed/part_007 alone, which holds
C28_CachedVariantDownloadsNothing ==
    (RepeatWithinTTL /\ fetch.impl = "cached") =>
        /\ fetch.downloads = <<>>
        /\ fetch.returned = fetch.first.returned

C28_CachedVariantRepeats ==
    /\ RepeatWithinTTL /\ fetch.impl = "cached"
    /\ fetch.downloads = <<>>

----------------------------------------------------------------------------
(* C26: a call of searchSubtitles or downloadSubtitle that ends on "not
   found" returns the empty list or the empty string and does not throw; a
   call that ends on a transport or authentication failure throws, or
   returns something other than what "not found" returns. *)
ClientDone == route = "client" /\ openSubtitlesClient.pc = "done"

NotFoundIsEmpty ==
    openSubtitlesClient.cause = "not found" =>
        /\ ~openSubtitlesClient.threw
        /\ openSubtitlesClient.result = EmptyOf(openSubtitlesClient.op)

FailureIsDistinguishable ==
    openSubtitlesClient.cause \in {"transport", "auth"} =>
        \/ openSubtitlesClient.threw
        \/ openSubtitlesClient.result # EmptyOf(openSubtitlesClient.op)

C26_ClientFailures ==
    ClientDone => (NotFoundIsEmpty /\ FailureIsDistinguishable)

\* the half about "not found" alone, and that no call throws at all
C26_NotFoundNeverThrows ==
    ClientDone => (NotFoundIsEmpty /\ ~openSubtitlesClient.threw)

\* a download whose link is missing, after one key ran out of quota
C26_NotFoundAfterRotation ==
    /\ ClientDone /\ openSubtitlesClient.op = "download"
    /\ openSubtitlesClient.cause = "not found"
    /\ openSubtitlesClient.requests = 2 /\ openSubtitlesClient.currentKeyIndex = 1
    /\ openSubtitlesClient.result = ""

----------------------------------------------------------------------------
(* C21: when fetchAndTranslateSubtitle returns two contents, parseSRT gives
   the same number of cues for both, and the cues at the same position have
   the same start and the same end. *)
TranslateDone == route = "fetch" /\ fetch.op = "translate" /\ fetch.pc = "done"

BothReturned == fetch.returned[1] # "null" /\ fetch.returned[2] # "null"

SameTimeline(content1, content2) ==
    LET entries1 == parseSRTString(LinesOf(fetch, content1))
        entries2 == parseSRTString(LinesOf(fetch, content2))
    IN /\ Len(entries1) = Len(entries2)
       /\ \A k \in 1..Len(entries1) :
             /\ k <= Len(entries2)
             /\ entries1[k].startTime = entries2[k].startTime
             /\ entries1[k].endTime = entries2[k].endTime

C21_SameTimeline ==
    (TranslateDone /\ BothReturned) =>
        SameTimeline(fetch.returned[1], fetch.returned[2])

\* the same when every cue of the source has a text outside its tags and
\* translateBatch returns an array, which holds
EveryCueHasText ==
    \A k \in 1..Len(parseSRTString(fetch.source)) :
        cleanForTranslation(parseSRTString(fetch.source)[k].text) # <<>>

C21_SameTimelineWhenTextEverywhere ==
    (TranslateDone /\ BothReturned /\ EveryCueHasText /\ fetch.shape = "array") =>
        SameTimeline(fetch.returned[1], fetch.returned[2])

\* a pair served from the cache, with its two cues on the same timeline
C21_CacheHitSameTimeline ==
    /\ TranslateDone /\ BothReturned /\ fetch.hit
    /\ EveryCueHasText /\ fetch.shape = "array"
    /\ Len(parseSRTString(LinesOf(fetch, fetch.returned[2]))) = 2
    /\ fetch.downloads = <<>>

----------------------------------------------------------------------------
(* C30: in the output of the interval-union variants that merge segments, no
   cue has the text of the cue before it and starts where that cue ends; and
   a cue made of several segments starts with its first segment and ends
   with its last one. *)
UnionDone == route = "call" /\ variant \in Coalescing /\ pc = "done"

\* the segments that are shown: [start, end, text] for every two neighbours
\* of the sorted times that are not skipped
ShownSegments ==
    LET entries1 == parseSRT(srt1.blocks)
        adjusted == adjustEntries(parseSRT(srt2.blocks), offset)
        times == SortedTimes({entries1[k].startTime : k \in 1..Len(entries1)}
                             \cup {entries1[k].endTime : k \in 1..Len(entries1)}
                             \cup {adjusted[k].startTime : k \in 1..Len(adjusted)}
                             \cup {adjusted[k].endTime : k \in 1..Len(adjusted)})
        least == IF variant = "union400" THEN MIN_SEGMENT_400 ELSE MIN_SEGMENT_50
        textAt(entries, i) ==
            LET sub == FindAtMidPoint(entries, times[i], times[i + 1])
            IN IF sub = 0 THEN <<>> ELSE unionText(variant, entries[sub].text)
        combined(i) == unionCombined(variant, textAt(entries1, i), textAt(adjusted, i))
    IN {[startTime |-> times[i], endTime |-> times[i + 1], text |-> combined(i)] :
           i \in {x \in 1..(Len(times) - 1) :
                     /\ times[x + 1] - times[x] >= least
                     /\ combined(x) # <<>>}}

Covers(cue, segment) ==
    /\ cue.startTime <= segment.startTime /\ segment.endTime <= cue.endTime
    /\ cue.text = segment.text

C30_Coalesced ==
    (UnionDone /\ ~merged.degenerate) =>
        /\ \A n \in 1..(Len(merged.cues) - 1) :
              ~(/\ merged.cues[n].text = merged.cues[n + 1].text
                /\ merged.cues[n].endTime = merged.cues[n + 1].startTime)
        /\ \A a \in ShownSegments : \A b \in ShownSegments :
              (a.endTime = b.startTime /\ a.text = b.text) =>
                  \E n \in 1..Len(merged.cues) :
                      Covers(merged.cues[n], a) /\ Covers(merged.cues[n], b)

\* two back-to-back segments of 1000 ms with the same two texts came out as
\* one cue of 2000 ms
C30_Witness ==
    /\ UnionDone /\ offset = 0
    /\ Len(In1) = 1 /\ In1[1].startTime = 0 /\ In1[1].endTime = 2000
    /\ Len(In2) = 2 /\ In2[1].text = In2[2].text
    /\ In2[1].startTime = 0 /\ In2[1].endTime = 1000
    /\ In2[2].startTime = 1000 /\ In2[2].endTime = 2000
    /\ Len(merged.cues) = 1
    /\ merged.cues[1].startTime = 0 /\ merged.cues[1].endTime = 2000

\* the interval union of src/src/services/subtitleMerger.ts does not merge:
\* an output with two touching cues of the same text
C30_Union0Touching ==
    /\ route = "call" /\ variant = "union0" /\ pc = "done"
    /\ \E n \in 1..(Len(merged.cues) - 1) :
          /\ merged.cues[n].text = merged.cues[n + 1].text
          /\ merged.cues[n].endTime = merged.cues[n + 1].startTime

----------------------------------------------------------------------------
(* C31 *)

WrapDone == route = "wrap" /\ pick.pc = "done"

\* the words of a text: its maximal runs of tokens that are not whitespace
RECURSIVE RunsFrom(_, _)
RunsFrom(text, current) ==
    IF text = <<>> THEN (IF current = <<>> THEN <<>> ELSE <<current>>)
    ELSE IF Head(text) \in Whitespace
         THEN (IF current = <<>> THEN <<>> ELSE <<current>>) \o RunsFrom(Tail(text), <<>>)
         ELSE RunsFrom(Tail(text), Append(current, Head(text)))

WordRuns(text) == RunsFrom(text, <<>>)

\* the lines of the wrapped text, the italics of a secondary text set aside
WrappedLines == Split(StripTags(pick.out), "\n")

RECURSIVE WordRunsOfLines(_)
WordRunsOfLines(lines) ==
    IF lines = <<>> THEN <<>>
    ELSE WordRuns(Head(lines)) \o WordRunsOfLines(Tail(lines))

\* C31: processText breaks lines only at whitespace: the words of the wrapped
\* text, read line after line, are the words of the cleaned input in the same
\* order, none of them split, and every line is at most 45 characters long
\* unless it is one single longer word
C31_WordWrap ==
    WrapDone =>
        /\ WordRunsOfLines(WrappedLines) = WordRuns(StripTags(pick.text))
        /\ \A l \in 1..Len(WrappedLines) :
              \/ TextLen(WrappedLines[l]) <= 45
              \/ Len(WordRuns(WrappedLines[l])) = 1
                    /\ WordRuns(WrappedLines[l])[1] = WrappedLines[l]

\* a text that needed a break: a line filled to 45 characters, and a word
\* longer than a line on the line after it
C31_Witness ==
    /\ WrapDone
    /\ Len(WrappedLines) >= 2
    /\ \E l \in 1..Len(WrappedLines) : TextLen(WrappedLines[l]) = 45
    /\ \E l \in 1..Len(WrappedLines) : TextLen(WrappedLines[l]) > 45

\* a break because one more short word would make 47 characters
C31_WitnessBreak ==
    /\ WrapDone
    /\ Len(WrappedLines) = 2
    /\ TextLen(WrappedLines[1]) = 45 /\ WrappedLines[2] = <<"a">>

----------------------------------------------------------------------------
(* C32 *)

CalledTwice == route = "twice" /\ repeat.pc = "twice"

----------------------------------------------------------------------------
(* C33 *)

AllKeys == 0..(rotation.keys - 1)

Exhausted(i) ==
    /\ route = "rotation" /\ rotation.kind = "opensubtitles"
    /\ rotation.calls[i].pc = "done" /\ rotation.calls[i].end = "exhausted"

\* C33: a call of OpenSubtitlesClient.executeWithRotation that reports
\* exhaustion has made a request with every configured key, also when two
\* calls run on the client at the same time
C33_ExhaustedTriedAll ==
    \A i \in Callers : Exhausted(i) => rotation.calls[i].tried = AllKeys

\* as long as the other caller has not yet entered, the call that reports
\* exhaustion has tried every key
C33_AloneTriedAll ==
    \A i \in Callers :
        (Exhausted(i) /\ \A j \in Callers \ {i} : rotation.calls[j].pc = "start")
            => rotation.calls[i].tried = AllKeys

\* a call that ran alone to exhaustion over two keys
C33_AloneExhausted ==
    \E i \in Callers :
        /\ Exhausted(i) /\ rotation.keys = 2
        /\ \A j \in Callers \ {i} : rotation.calls[j].pc = "start"

----------------------------------------------------------------------------
(* C34 *)

OnRotation == route = "rotation"

ValidIndex == 0 <= rotation.currentKeyIndex /\ rotation.currentKeyIndex < rotation.keys

\* no call makes more requests than there are keys
BoundedAttempts ==
    \A i \in Callers :
        /\ rotation.calls[i].requests <= rotation.keys
        /\ rotation.calls[i].answers <= rotation.calls[i].requests

\* every call that has entered comes to its end
Terminates ==
    \A i \in Callers :
        (OnRotation /\ rotation.calls[i].pc = "pending")
            ~> (rotation.calls[i].pc = "done")

\* the request of caller i is answered in this step, by an error of a kind
\* not in causes
AnsweredOtherThan(i, causes) ==
    /\ rotation'.round = rotation.round
    /\ rotation'.calls[i].answers = rotation.calls[i].answers + 1
    /\ rotation'.calls[i].cause \notin (causes \cup {"found"})

EndsWithoutRotating(i) ==
    /\ rotation'.calls[i].pc = "done"
    /\ rotation'.calls[i].end = "threw"
    /\ rotation'.currentKeyIndex = rotation.currentKeyIndex

\* the answers on which a client moves to its next key
RotatingCauses == IF rotation.kind = "opensubtitles" THEN {"quota", "server"} ELSE {"quota"}

\* as stated: the index is a valid index in every state, and every error
\* other than a quota error ends the call without rotating
C34_Rotation_Stated ==
    /\ [](OnRotation => ValidIndex /\ BoundedAttempts)
    /\ Terminates
    /\ [][OnRotation =>
            \A i \in Callers :
                AnsweredOtherThan(i, {"quota"}) => EndsWithoutRotating(i)]_vars

\* C34: in both rotating clients currentKeyIndex is a valid index whenever a
\* key is configured (and 0 otherwise), a call makes at most as many requests
\* as there are keys and comes to its end, and an error on which the client
\* does not rotate (for OpenSubtitles: neither a quota error nor a 5xx) ends
\* the call at once and leaves the index alone, under every interleaving
C34_Rotation ==
    /\ [](OnRotation =>
            /\ (rotation.keys > 0 => ValidIndex)
            /\ (rotation.keys = 0 => rotation.currentKeyIndex = 0)
            /\ BoundedAttempts)
    /\ Terminates
    /\ [][OnRotation =>
            \A i \in Callers :
                AnsweredOtherThan(i, RotatingCauses) => EndsWithoutRotating(i)]_vars

\* a call ended by an authorisation error while the other call had moved the
\* client to its second key
C34_Witness ==
    /\ OnRotation /\ rotation.keys = 2 /\ rotation.currentKeyIndex = 1
    /\ \E i \in Callers :
          /\ rotation.calls[i].end = "threw" /\ rotation.calls[i].cause = "auth"
          /\ rotation.calls[i].key = 0
          /\ \E j \in Callers \ {i} : rotation.calls[j].requests = 2

----------------------------------------------------------------------------
(* C35 *)

StoreCalls == 1..Len(subtitleStorage.stores)

\* the store call k is less than an hour old, or just an hour
NotYetExpired(k) == subtitleStorage.now - subtitleStorage.stores[k].at <= STORAGE_TTL

\* C35: as long as its entry has not expired, get on the id a store call
\* returned gives the content passed to that call, also when another store
\* call for the same title was made in the same millisecond
C35_GetReturnsStored ==
    route = "storage" =>
        \A k \in StoreCalls :
            NotYetExpired(k) =>
                storageGetResult(subtitleStorage, subtitleStorage.stores[k].id)
                    = subtitleStorage.stores[k].content

\* no other store call returned the id of the call k
OwnId(k) ==
    \A l \in StoreCalls \ {k} :
        subtitleStorage.stores[l].id # subtitleStorage.stores[k].id

\* the same, for the store calls whose id no other call returned
C35_GetReturnsStoredOwnId ==
    route = "storage" =>
        \A k \in StoreCalls :
            (NotYetExpired(k) /\ OwnId(k)) =>
                storageGetResult(subtitleStorage, subtitleStorage.stores[k].id)
                    = subtitleStorage.stores[k].content

\* two store calls for one title at different times, both still stored, and
\* a get that returned the content of the first
C35_TwoStoresApart ==
    /\ route = "storage"
    /\ \E k \in StoreCalls : \E l \in StoreCalls :
          /\ k < l /\ OwnId(k) /\ OwnId(l) /\ NotYetExpired(k)
          /\ subtitleStorage.stores[k].id[1] = subtitleStorage.stores[l].id[1]
          /\ subtitleStorage.stores[k].content # subtitleStorage.stores[l].content
          /\ subtitleStorage.last = [id |-> subtitleStorage.stores[k].id,
                                     result |-> subtitleStorage.stores[k].content]

----------------------------------------------------------------------------
(* C36 *)

LibreReturned == route = "libre" /\ tr.pc = "returned"

\* the list has one result for each input line, made from the line at its
\* position
OnePerLine(list) ==
    /\ Len(list) = Len(tr.texts)
    /\ \A k \in 1..Len(list) : list[k].from = k

\* C36: LibreTranslateClient.translateBatch returns one result for each input
\* line, at the position of the line, whichever requests fail or come back
\* with the wrong number of pieces; no line has two results
C36_OnePerLine ==
    LibreReturned =>
        /\ OnePerLine(tr.pushed)
        /\ OnePerLine(tr.results)
        /\ \A k \in 1..Len(tr.pushed) : \A l \in 1..Len(tr.pushed) :
              tr.pushed[k].from = tr.pushed[l].from => k = l

\* the same for the client that sends the lines of a chunk together
\* (libretranslate-client.ts:165-205), and for the smart client as long as no
\* line-by-line request fails after a mismatch
C36_OnePerLineParallel ==
    (LibreReturned /\ (tr.libre = "parallel" \/ tr.mismatches = 0 \/ tr.caught = 0))
        => OnePerLine(tr.pushed) /\ OnePerLine(tr.results)

\* the parallel client returned after a failed Promise.all, the smart client
\* after a mismatch
C36_FallbacksTaken ==
    /\ LibreReturned /\ Len(tr.texts) >= 3
    /\ \/ tr.libre = "parallel" /\ tr.caught > 0
       \/ tr.libre = "smart" /\ tr.mismatches > 0

----------------------------------------------------------------------------
(* C37 *)

OnPriority == route = "translate" /\ tr.impl = "priority"

Priority == <<"libre", "deepl", "google">>

\* the providers were reached in the order of their priority, each one after
\* the one before it was unavailable or had failed
InPriorityOrder ==
    /\ Len(tr.stages) <= 3
    /\ \A s \in 1..Len(tr.stages) :
          /\ tr.stages[s].provider = Priority[s]
          /\ s < Len(tr.stages) => tr.stages[s].ended \in {"unavailable", "failed"}
    /\ Len(tr.stages) >= 1 => (tr.stages[1].ended = "unavailable" <=> tr.libre = "none")
    /\ Len(tr.stages) >= 2 => (tr.stages[2].ended = "unavailable" <=> ~tr.deepl)

\* the provider that completed
Completed == tr.stages[Len(tr.stages)]

\* C37: LibreTranslate is tried first, DeepL only after LibreTranslate was
\* unavailable or failed, Google only after both; every position of the
\* returned list was written last by the provider that completed, and
\* errorCount is 0 unless that provider is Google
C37_ProviderPriority ==
    OnPriority =>
        /\ InPriorityOrder
        /\ tr.pc = "done" =>
              /\ Len(tr.stages) >= 1 /\ Completed.ended = "completed"
              /\ \A k \in 1..Len(tr.texts) : tr.by[k] = Completed.provider
              /\ Completed.provider # "google" => tr.errorCount = 0

\* LibreTranslate failed, DeepL translated its first chunk and failed on the
\* next, Google completed with a chunk that failed for good
C37_Witness ==
    /\ OnPriority /\ tr.pc = "done"
    /\ Len(tr.stages) = 3
    /\ tr.stages[1].ended = "failed"
    /\ tr.stages[2].ended = "failed" /\ tr.stages[2].wrote > 0
    /\ tr.errorCount > 0

----------------------------------------------------------------------------
(* C38 *)

\* the result at position k is the input line k itself
KeptAsIs(k) == tr.results[k] = Res(k, "original")

\* C38: a line that is blank or made of digits only is not translated: the
\* list translateBatch returns has the input line at its position
C38_SkippedLinesKept ==
    TrReturned =>
        \A k \in 1..Len(tr.texts) : Skippable(tr.texts[k]) => KeptAsIs(k)

\* the same for the implementation that translates line by line
\* (src/unnamed/part_013:47-95)
C38_SkippedLinesKeptSequential ==
    (TrReturned /\ tr.impl = "sequential") =>
        \A k \in 1..Len(tr.texts) : Skippable(tr.texts[k]) => KeptAsIs(k)

\* the line-by-line implementation returned a list with a line of digits next
\* to a translated line
C38_SequentialSkipped ==
    /\ TrReturned /\ tr.impl = "sequential"
    /\ \E k \in 1..Len(tr.texts) : \E l \in 1..Len(tr.texts) :
          /\ tr.texts[k] = "42" /\ KeptAsIs(k)
          /\ tr.results[l] = Res(l, "translated")

----------------------------------------------------------------------------
(* C40 *)

\* two candidates with an upload date that differ in nothing but that date,
\* of which the first was uploaded later than the second
UploadedLater(newer, older) ==
    /\ newer.uploadAge # NoUploadDate /\ older.uploadAge # NoUploadDate
    /\ newer.uploadAge < older.uploadAge
    /\ [newer EXCEPT !.uploadAge = 0] = [older EXCEPT !.uploadAge = 0]

\* the score getBestSubtitle gave to candidate n of the list
ScoreGiven(n) == scoreOf(pick.subtitles[n], maxDownloads(pick.subtitles))

\* C40: of two candidates that differ only in their upload date, the one
\* uploaded more recently never gets a lower score than the older one
C40_RecencyMonotone ==
    (route = "best" /\ pick.pc = "done") =>
        \A i, j \in 1..Len(pick.subtitles) :
            UploadedLater(pick.subtitles[i], pick.subtitles[j])
                => ScoreGiven(i) >= ScoreGiven(j)

\* the same when both uploads are on the same side of the 30 days
C40_RecencyMonotoneSameSide ==
    (route = "best" /\ pick.pc = "done") =>
        \A i, j \in 1..Len(pick.subtitles) :
            /\ UploadedLater(pick.subtitles[i], pick.subtitles[j])
            /\ (pick.subtitles[i].uploadAge < 30) = (pick.subtitles[j].uploadAge < 30)
            => ScoreGiven(i) >= ScoreGiven(j)

\* an upload of today scored above one of 20 days ago that it equals otherwise
C40_NewerScoredHigher ==
    /\ route = "best" /\ pick.pc = "done" /\ Len(pick.subtitles) = 2
    /\ UploadedLater(pick.subtitles[1], pick.subtitles[2])
    /\ pick.subtitles[1].uploadAge = 0 /\ pick.subtitles[2].uploadAge = 20
    /\ ScoreGiven(1) > ScoreGiven(2)

----------------------------------------------------------------------------
(* C39 *)

\* an italic fragment with nothing in it: '<i></i>'
EmptyFragment(text) ==
    \E n \in 1..(Len(text) - 1) : text[n] = "<i>" /\ text[n + 1] = "</i>"

\* C39: no cue in the output of mergeSubtitles, master-anchored or orphan,
\* has empty visible text, and no secondary part of a cue is an empty styled
\* fragment
C39_NoEmptyText ==
    Merged =>
        \A k \in OutIdx : /\ Visible(OutCues[k].text) # <<>>
                          /\ ~EmptyFragment(OutCues[k].text)

\* the first half for the master-anchored cues alone
C39_AnchoredHaveText ==
    Merged => \A k \in OutIdx : Anchored_(k) => Visible(OutCues[k].text) # <<>>

\* a master cue without text was dropped while another one is in the output
C39_MasterDropped ==
    /\ Merged
    /\ \E i \in 1..Len(In1) : Visible(In1[i].text) = <<>>
    /\ \E k \in OutIdx : Anchored_(k)

====
